---- MODULE Spec2Model ----
(***************************************************************************)
(* Verification model of the DSAUtility containers                         *)
(* (Include/Structures): the AVL tree, the binary search tree, and the     *)
(* Stack / Queue / Heap adaptors.                                          *)
(*                                                                         *)
(* Trees are values: a node is a record [data, left, right, height] that   *)
(* owns its children (std::unique_ptr), the absent child is Nil.           *)
(***************************************************************************)
EXTENDS Integers, Sequences, FiniteSets, TLC

\* ------------------------------------------------------------------ bounds
\* keys offered to insert / remove are 1..MaxKey
MaxKey == 5
\* insert is not offered once size_ has reached MaxSize (size_ grows on
\* every insert call, duplicates included)
MaxSize == 6

\* values pushed on Stack / Queue / Heap are 1..MaxVal
MaxVal == 2
\* push is not offered on a container that already holds MaxLen elements
MaxLen == 3
\* Stack(size_t initial_capacity) / Queue(size_t initial_capacity) argument
InitialCapacity == 2

\* width given to size_t, in bits
SizeBits == 8

Key == 1..MaxKey
Val == 1..MaxVal

\* ------------------------------------------------------------------ state
VARIABLES
    root,       \* AVLTree::root
    size_,      \* AVLTree::size_
    crashed,    \* the process holding the AVLTree has terminated abnormally
    ub,         \* what this build does on the null unique_ptr dereference
                \* inside right_rotate / left_rotate
    last,       \* the public call that acted last: [op, key, present],
                \* present = contains(key) when the call was made
    \* round trip over an AVLTree
    tripIn,     \* keys inserted so far
    tripOut,    \* keys removed so far
    \* BinarySearchTree
    bst_root,   \* BinarySearchTree::root
    bst_size,   \* BinarySearchTree::size_
    bst_res,    \* the last public call and, for min() / max(), its outcome
    \* Stack, Queue, Heap
    stack_data,     \* Stack::data (std::vector, back is the top)
    stack_capacity, \* Stack::capacity
    queue_data,     \* Queue::data (std::deque, front is served first)
    queue_capacity, \* Queue::capacity
    heap_data,      \* Heap::data (std::vector, index 0 is the top)
    cont_res,       \* the last call on a container, the call before it and,
                    \* for top() / front(), its outcome
    under_test,     \* the container object this run exercises
    \* a client running one of the scenarios on an AVLTree
    ran,        \* the calls made so far, in order
    \* one rotation of one subtree
    rot_in,     \* the subtree handed to the rotation
    rot_out,    \* the rotation called, the handles its two height updates
                \* go through, and what it returned
    \* ArrayDS
    arr_data,       \* ArrayDS::data (std::vector)
    arr_capacity,   \* ArrayDS::capacity
    arr_size,       \* ArrayDS::size_
    \* CircularQueue
    buffer,         \* CircularQueue::buffer (std::vector of fixed length)
    front_index,    \* CircularQueue::front_index
    rear_index,     \* CircularQueue::rear_index
    count_,         \* CircularQueue::count_
    \* CircularLinkedList
    cll_data,       \* the node values from head to tail, while the nodes
                    \* are intact
    cll_size,       \* LinkedList::size_
    cll_freed,      \* a node still linked into the list has been deleted
    cll_dead,       \* the process holding the list has terminated abnormally
    at_res,         \* the last call on an indexed container and, for at(),
                    \* the index asked for and the outcome
    \* LinkedList
    ll_nodes,       \* the ListNode objects alive: address -> [data, next, prev],
                    \* 0 for nullptr
    ll_head,        \* LinkedList::head
    ll_tail,        \* LinkedList::tail
    ll_size,        \* LinkedList::size_
    ll_dead,        \* the process holding the list has terminated abnormally
    ll_res,         \* the last call on the list and its outcome
    \* QuickSort
    qs_arr,         \* the vector handed to QuickSort::sort
    qs_strategy,    \* the PivotStrategy handed to it
    qs_res,         \* what the call did and the vector it left
    \* Search
    bs_arr,         \* the sorted vector handed to Search::binary_search
    bs_target,      \* the target handed to it
    bs_res,         \* what the call did, the indices it read, its result
    \* Graph
    adjacency_list, \* Graph::adjacency_list: vertex -> destinations of its edges
    is_directed_,   \* Graph::is_directed_
    edge_count_,    \* Graph::edge_count_, a size_t read as a signed integer:
                    \* -1 stands for SIZE_MAX
    \* DisjointSet
    nodes,          \* DisjointSet::nodes: value -> [parent, rank, size]
    set_count_,     \* DisjointSet::set_count_
    union_calls,    \* the closure of the union_sets calls so far: of those
                    \* made by the client and, of those, the ones that returned
    ds_res          \* the last call on the DisjointSet and its outcome

avlVars == <<root, size_, crashed, ub, last>>
tripVars == <<tripIn, tripOut>>
bstVars == <<bst_root, bst_size, bst_res>>
contVars == <<stack_data, stack_capacity, queue_data, queue_capacity,
              heap_data, cont_res, under_test>>
scenVars == <<ran>>
rotVars == <<rot_in, rot_out>>
idxVars == <<arr_data, arr_capacity, arr_size, buffer, front_index, rear_index,
             count_, cll_data, cll_size, cll_freed, cll_dead, at_res>>
listVars == <<ll_nodes, ll_head, ll_tail, ll_size, ll_dead, ll_res>>
sortVars == <<qs_arr, qs_strategy, qs_res>>
searchVars == <<bs_arr, bs_target, bs_res>>
graphVars == <<adjacency_list, is_directed_, edge_count_>>
dsVars == <<nodes, set_count_, union_calls, ds_res>>
\* the objects of the later sections, which every earlier call leaves alone
lateVars == <<listVars, sortVars, searchVars, graphVars, dsVars>>
vars == <<avlVars, tripVars, bstVars, contVars, scenVars, rotVars, idxVars,
          lateVars>>
\* the objects that the calls on trees, Stack, Queue and Heap leave alone
restVars == <<scenVars, rotVars, idxVars, lateVars>>

\* ------------------------------------------------------------ tree values
Nil == [nil |-> TRUE]
IsNil(n) == "nil" \in DOMAIN n

\* result of a call that never returned (null dereference)
Dead == [dead |-> TRUE]
IsDead(n) == "dead" \in DOMAIN n

Max(a, b) == IF a >= b THEN a ELSE b
Abs(a) == IF a >= 0 THEN a ELSE 0 - a

\* AVLNode(const T& value): children absent, height 1
AVLNode(value) == [data |-> value, left |-> Nil, right |-> Nil, height |-> 1]

\* int get_height(AVLNode<T>* node): the cached height, 0 for nullptr
get_height(node) == IF IsNil(node) THEN 0 ELSE node.height

\* int get_balance(AVLNode<T>* node): cached left height - cached right height
get_balance(node) ==
    IF IsNil(node) THEN 0
    ELSE get_height(node.left) - get_height(node.right)

\* node->height = 1 + std::max(get_height(left), get_height(right))
update_height(node) ==
    [node EXCEPT !.height = 1 + Max(get_height(node.left), get_height(node.right))]

\* The dereference of a unique_ptr that has just been moved from is
\* undefined behaviour.  A build either traps there ("trap"), drops the
\* store through the null handle ("elide"), or happens to apply it to the
\* node the handle referred to before the move ("asif").
UBOutcome == {"trap", "elide", "asif"}

\* the local handles of right_rotate after its three moves:
\*   auto x = std::move(y->left);  y->left = std::move(x->right);
\*   x->right = std::move(y);
\* x owns the new subtree root, whose right child is the node y owned, and
\* y owns nothing
right_rotate_moves(y) ==
    LET x  == y.left
        y1 == [y EXCEPT !.left = x.right]
    IN [x |-> [x EXCEPT !.right = y1], y |-> Nil]

\* the local handles of left_rotate after its three moves:
\*   auto y = std::move(x->right);  x->right = std::move(y->left);
\*   y->left = std::move(x);
left_rotate_moves(x) ==
    LET y  == x.right
        x1 == [x EXCEPT !.right = y.left]
    IN [y |-> [y EXCEPT !.left = x1], x |-> Nil]

\* right_rotate(y): the three moves, then y->height = ... through the
\* handle y, which is null by then, then x->height = ...; return x
right_rotate(y) ==
    IF IsNil(y.left) THEN Dead                     \* x is null: x->right
    ELSE LET h == right_rotate_moves(y)
         IN CASE ub = "trap"  -> Dead
              [] ub = "elide" -> update_height(h.x)
              [] ub = "asif"  ->
                    update_height([h.x EXCEPT !.right = update_height(h.x.right)])

\* left_rotate(x): the three moves, then x->height = ... through the
\* handle x, which is null by then, then y->height = ...; return y
left_rotate(x) ==
    IF IsNil(x.right) THEN Dead                    \* y is null: y->left
    ELSE LET h == left_rotate_moves(x)
         IN CASE ub = "trap"  -> Dead
              [] ub = "elide" -> update_height(h.y)
              [] ub = "asif"  ->
                    update_height([h.y EXCEPT !.left = update_height(h.y.left)])

\* find_min: leftmost node of a subtree (the argument itself when nullptr)
RECURSIVE find_min(_)
find_min(node) ==
    IF IsNil(node) \/ IsNil(node.left) THEN node ELSE find_min(node.left)

\* find_node: comparison descent, nullptr (Nil) when the value is not met
RECURSIVE find_node(_, _)
find_node(node, value) ==
    IF IsNil(node) THEN Nil
    ELSE IF node.data = value THEN node
    ELSE IF value < node.data THEN find_node(node.left, value)
    ELSE find_node(node.right, value)

\* find_node(root.get(), value) != nullptr, for a given root
Contains(r, value) == ~IsNil(find_node(r, value))

\* bool contains(value)
contains(value) == Contains(root, value)

\* the unwind part of insert_recursive: height update and the four cases
insert_rebalance(node0, value) ==
    LET node    == update_height(node0)
        balance == get_balance(node)
    IN IF balance > 1 /\ value < node.left.data THEN right_rotate(node)
       ELSE IF balance < -1 /\ value > node.right.data THEN left_rotate(node)
       ELSE IF balance > 1 /\ value > node.left.data THEN
            LET l == left_rotate(node.left)
            IN IF IsDead(l) THEN Dead ELSE right_rotate([node EXCEPT !.left = l])
       ELSE IF balance < -1 /\ value < node.right.data THEN
            LET r == right_rotate(node.right)
            IN IF IsDead(r) THEN Dead ELSE left_rotate([node EXCEPT !.right = r])
       ELSE node

\* which of the four cases of insert_recursive fires at a node on the way
\* back up, after its height update
insert_case(node0, value) ==
    LET node    == update_height(node0)
        balance == get_balance(node)
    IN IF balance > 1 /\ value < node.left.data THEN "left_left"
       ELSE IF balance < -1 /\ value > node.right.data THEN "right_right"
       ELSE IF balance > 1 /\ value > node.left.data THEN "left_right"
       ELSE IF balance < -1 /\ value < node.right.data THEN "right_left"
       ELSE "none"

\* insert_recursive with the duplicate test lost: an equal key descends right
RECURSIVE insert_recursive_dup(_, _)
insert_recursive_dup(node, value) ==
    IF IsNil(node) THEN AVLNode(value)
    ELSE IF value < node.data THEN
        LET l == insert_recursive_dup(node.left, value)
        IN IF IsDead(l) THEN Dead
           ELSE insert_rebalance([node EXCEPT !.left = l], value)
    ELSE
        LET r == insert_recursive_dup(node.right, value)
        IN IF IsDead(r) THEN Dead
           ELSE insert_rebalance([node EXCEPT !.right = r], value)

RECURSIVE insert_recursive(_, _)
insert_recursive(node, value) ==
    IF IsNil(node) THEN AVLNode(value)
    ELSE IF value < node.data THEN
        LET l == insert_recursive(node.left, value)
        IN IF IsDead(l) THEN Dead
           ELSE insert_rebalance([node EXCEPT !.left = l], value)
    ELSE IF value > node.data THEN
        LET r == insert_recursive(node.right, value)
        IN IF IsDead(r) THEN Dead
           ELSE insert_rebalance([node EXCEPT !.right = r], value)
    ELSE node

\* the number of nodes on the path of insert_recursive(node, value) at
\* which one of the four cases fires
RECURSIVE insert_cases(_, _)
insert_cases(node, value) ==
    IF IsNil(node) THEN 0
    ELSE IF value < node.data THEN
        LET l == insert_recursive(node.left, value)
        IN insert_cases(node.left, value)
           + (IF IsDead(l) THEN 0
              ELSE IF insert_case([node EXCEPT !.left = l], value) # "none" THEN 1
              ELSE 0)
    ELSE IF value > node.data THEN
        LET r == insert_recursive(node.right, value)
        IN insert_cases(node.right, value)
           + (IF IsDead(r) THEN 0
              ELSE IF insert_case([node EXCEPT !.right = r], value) # "none" THEN 1
              ELSE 0)
    ELSE 0

\* the rotations the four cases of insert_recursive call at a node, each as
\* the pair of the rotation and the node it is called on; the outer rotation
\* of a double case is called only when the inner one has returned
insert_rebalance_calls(node0, value) ==
    LET node == update_height(node0)
        c    == insert_case(node0, value)
    IN CASE c = "left_left"   -> {<<"right_rotate", node>>}
         [] c = "right_right" -> {<<"left_rotate", node>>}
         [] c = "left_right"  ->
                LET l == left_rotate(node.left)
                IN {<<"left_rotate", node.left>>}
                   \cup (IF IsDead(l) THEN {}
                         ELSE {<<"right_rotate", [node EXCEPT !.left = l]>>})
         [] c = "right_left"  ->
                LET r == right_rotate(node.right)
                IN {<<"right_rotate", node.right>>}
                   \cup (IF IsDead(r) THEN {}
                         ELSE {<<"left_rotate", [node EXCEPT !.right = r]>>})
         [] OTHER -> {}

\* every rotation call made in the course of insert_recursive(node, value)
RECURSIVE insert_rotations(_, _)
insert_rotations(node, value) ==
    IF IsNil(node) THEN {}
    ELSE IF value < node.data THEN
        LET l == insert_recursive(node.left, value)
        IN insert_rotations(node.left, value)
           \cup (IF IsDead(l) THEN {}
                 ELSE insert_rebalance_calls([node EXCEPT !.left = l], value))
    ELSE IF value > node.data THEN
        LET r == insert_recursive(node.right, value)
        IN insert_rotations(node.right, value)
           \cup (IF IsDead(r) THEN {}
                 ELSE insert_rebalance_calls([node EXCEPT !.right = r], value))
    ELSE {}

\* the unwind part of remove_recursive: height update and the four cases
remove_rebalance(node0) ==
    LET node    == update_height(node0)
        balance == get_balance(node)
    IN IF balance > 1 /\ get_balance(node.left) >= 0 THEN right_rotate(node)
       ELSE IF balance > 1 /\ get_balance(node.left) < 0 THEN
            LET l == left_rotate(node.left)
            IN IF IsDead(l) THEN Dead ELSE right_rotate([node EXCEPT !.left = l])
       ELSE IF balance < -1 /\ get_balance(node.right) <= 0 THEN left_rotate(node)
       ELSE IF balance < -1 /\ get_balance(node.right) > 0 THEN
            LET r == right_rotate(node.right)
            IN IF IsDead(r) THEN Dead ELSE left_rotate([node EXCEPT !.right = r])
       ELSE node

RECURSIVE remove_recursive(_, _)
remove_recursive(node, value) ==
    IF IsNil(node) THEN Nil
    ELSE IF value < node.data THEN
        LET l == remove_recursive(node.left, value)
        IN IF IsDead(l) THEN Dead
           ELSE remove_rebalance([node EXCEPT !.left = l])
    ELSE IF value > node.data THEN
        LET r == remove_recursive(node.right, value)
        IN IF IsDead(r) THEN Dead
           ELSE remove_rebalance([node EXCEPT !.right = r])
    ELSE IF IsNil(node.left) THEN node.right
    ELSE IF IsNil(node.right) THEN node.left
    ELSE LET m == find_min(node.right).data
             r == remove_recursive(node.right, m)
         IN IF IsDead(r) THEN Dead
            ELSE remove_rebalance([node EXCEPT !.data = m, !.right = r])

\* the rotations the four cases of remove_recursive call at a node
remove_rebalance_calls(node0) ==
    LET node    == update_height(node0)
        balance == get_balance(node)
    IN IF balance > 1 /\ get_balance(node.left) >= 0 THEN {<<"right_rotate", node>>}
       ELSE IF balance > 1 /\ get_balance(node.left) < 0 THEN
            LET l == left_rotate(node.left)
            IN {<<"left_rotate", node.left>>}
               \cup (IF IsDead(l) THEN {}
                     ELSE {<<"right_rotate", [node EXCEPT !.left = l]>>})
       ELSE IF balance < -1 /\ get_balance(node.right) <= 0 THEN {<<"left_rotate", node>>}
       ELSE IF balance < -1 /\ get_balance(node.right) > 0 THEN
            LET r == right_rotate(node.right)
            IN {<<"right_rotate", node.right>>}
               \cup (IF IsDead(r) THEN {}
                     ELSE {<<"left_rotate", [node EXCEPT !.right = r]>>})
       ELSE {}

\* every rotation call made in the course of remove_recursive(node, value)
RECURSIVE remove_rotations(_, _)
remove_rotations(node, value) ==
    IF IsNil(node) THEN {}
    ELSE IF value < node.data THEN
        LET l == remove_recursive(node.left, value)
        IN remove_rotations(node.left, value)
           \cup (IF IsDead(l) THEN {}
                 ELSE remove_rebalance_calls([node EXCEPT !.left = l]))
    ELSE IF value > node.data THEN
        LET r == remove_recursive(node.right, value)
        IN remove_rotations(node.right, value)
           \cup (IF IsDead(r) THEN {}
                 ELSE remove_rebalance_calls([node EXCEPT !.right = r]))
    ELSE IF IsNil(node.left) \/ IsNil(node.right) THEN {}
    ELSE LET m == find_min(node.right).data
             r == remove_recursive(node.right, m)
         IN remove_rotations(node.right, m)
            \cup (IF IsDead(r) THEN {}
                  ELSE remove_rebalance_calls([node EXCEPT !.data = m, !.right = r]))

\* the calls remove_recursive(node, value) makes, itself included, that end
\* in the rebalancing step: each as the pair of its arguments
RECURSIVE remove_unwind(_, _)
remove_unwind(node, value) ==
    IF IsNil(node) THEN {}
    ELSE IF value < node.data THEN
        {<<node, value>>} \cup remove_unwind(node.left, value)
    ELSE IF value > node.data THEN
        {<<node, value>>} \cup remove_unwind(node.right, value)
    ELSE IF IsNil(node.left) \/ IsNil(node.right) THEN {}
    ELSE {<<node, value>>}
         \cup remove_unwind(node.right, find_min(node.right).data)

\* inorder(): left subtree, node, right subtree
RECURSIVE inorder_recursive(_)
inorder_recursive(node) ==
    IF IsNil(node) THEN <<>>
    ELSE inorder_recursive(node.left) \o <<node.data>> \o inorder_recursive(node.right)

inorder == inorder_recursive(root)

\* height(): recomputed from the shape, not from the cached fields
RECURSIVE height_recursive(_)
height_recursive(node) ==
    IF IsNil(node) THEN 0
    ELSE 1 + Max(height_recursive(node.left), height_recursive(node.right))

\* is_balanced_recursive: recomputed height, or -1 when some node is off
\* is_balanced_recursive that trusts the cached height of the node
RECURSIVE is_balanced_recursive_cached(_)
is_balanced_recursive_cached(node) ==
    IF IsNil(node) THEN 0
    ELSE LET left_height == is_balanced_recursive_cached(node.left)
         IN IF left_height = -1 THEN -1
            ELSE LET right_height == is_balanced_recursive_cached(node.right)
                 IN IF right_height = -1 THEN -1
                    ELSE IF Abs(left_height - right_height) > 1 THEN -1
                    ELSE node.height

\* int is_balanced_recursive(const AVLNode<T>* node): the height of the
\* subtree, or -1 when some node of it is unbalanced
RECURSIVE is_balanced_recursive(_)
is_balanced_recursive(node) ==
    IF IsNil(node) THEN 0
    ELSE LET left_height == is_balanced_recursive(node.left)
         IN IF left_height = -1 THEN -1
            ELSE LET right_height == is_balanced_recursive(node.right)
                 IN IF right_height = -1 THEN -1
                    ELSE IF Abs(left_height - right_height) > 1 THEN -1
                    ELSE 1 + Max(left_height, right_height)

is_balanced == is_balanced_recursive(root) # -1

\* ------------------------------------------------------ AVLTree actions
AVLInit ==
    /\ root = Nil
    /\ size_ = 0
    /\ crashed = FALSE
    /\ last = [op |-> "new", key |-> 0, present |-> FALSE]

\* a terminated process makes no further call
CanCall == ~crashed

\* void insert(const T& value)
insert(value) ==
    /\ CanCall
    /\ LET r == insert_recursive(root, value)
       IN IF IsDead(r)
          THEN crashed' = TRUE /\ UNCHANGED <<root, size_>>
          ELSE root' = r /\ size_' = size_ + 1 /\ crashed' = FALSE
    /\ last' = [op |-> "insert", key |-> value, present |-> contains(value)]
    /\ UNCHANGED ub

\* remove with the contains() test lost
remove_unguarded(value) ==
    /\ CanCall
    /\ LET r == remove_recursive(root, value)
       IN IF IsDead(r)
          THEN crashed' = TRUE /\ UNCHANGED <<root, size_>>
          ELSE root' = r /\ size_' = size_ - 1 /\ crashed' = FALSE
    /\ last' = [op |-> "remove", key |-> value, present |-> contains(value)]
    /\ UNCHANGED ub

\* void remove(const T& value)
remove(value) ==
    /\ CanCall
    /\ IF contains(value)
       THEN LET r == remove_recursive(root, value)
            IN IF IsDead(r)
               THEN crashed' = TRUE /\ UNCHANGED <<root, size_>>
               ELSE root' = r /\ size_' = size_ - 1 /\ crashed' = FALSE
       ELSE UNCHANGED <<root, size_, crashed>>
    /\ last' = [op |-> "remove", key |-> value, present |-> contains(value)]
    /\ UNCHANGED ub

TripIdle == tripIn = {} /\ tripOut = {}

Insert ==
    \E k \in Key :
        size_ < MaxSize /\ insert(k) /\ UNCHANGED <<tripVars, bstVars, contVars, restVars>>

Remove == \E k \in Key : remove(k) /\ UNCHANGED <<tripVars, bstVars, contVars, restVars>>

\* insert every key of a set once, then remove every one of them once
TripInsert ==
    \E k \in Key \ tripIn :
        /\ tripOut = {}
        /\ insert(k)
        /\ tripIn' = tripIn \cup {k}
        /\ UNCHANGED <<tripOut, bstVars, contVars, restVars>>

TripRemove ==
    \E k \in tripIn \ tripOut :
        /\ remove(k)
        /\ tripOut' = tripOut \cup {k}
        /\ UNCHANGED <<tripIn, bstVars, contVars, restVars>>

\* ------------------------------------------------------- BinarySearchTree
\* BSTNode(const T& value)
BSTNode(value) == [data |-> value, left |-> Nil, right |-> Nil]

RECURSIVE bst_find_min(_)
bst_find_min(node) ==
    IF IsNil(node) \/ IsNil(node.left) THEN node ELSE bst_find_min(node.left)

RECURSIVE bst_find_max(_)
bst_find_max(node) ==
    IF IsNil(node) \/ IsNil(node.right) THEN node ELSE bst_find_max(node.right)

RECURSIVE bst_find_node(_, _)
bst_find_node(node, value) ==
    IF IsNil(node) THEN Nil
    ELSE IF node.data = value THEN node
    ELSE IF value < node.data THEN bst_find_node(node.left, value)
    ELSE bst_find_node(node.right, value)

bst_contains(value) == ~IsNil(bst_find_node(bst_root, value))

RECURSIVE bst_insert_recursive(_, _)
bst_insert_recursive(node, value) ==
    IF IsNil(node) THEN BSTNode(value)
    ELSE IF value < node.data THEN
        [node EXCEPT !.left = bst_insert_recursive(node.left, value)]
    ELSE IF value > node.data THEN
        [node EXCEPT !.right = bst_insert_recursive(node.right, value)]
    ELSE node

RECURSIVE bst_remove_recursive(_, _)
bst_remove_recursive(node, value) ==
    IF IsNil(node) THEN Nil
    ELSE IF value < node.data THEN
        [node EXCEPT !.left = bst_remove_recursive(node.left, value)]
    ELSE IF value > node.data THEN
        [node EXCEPT !.right = bst_remove_recursive(node.right, value)]
    ELSE IF IsNil(node.left) THEN node.right
    ELSE IF IsNil(node.right) THEN node.left
    ELSE LET m == bst_find_min(node.right).data
         IN [node EXCEPT !.data = m,
                         !.right = bst_remove_recursive(node.right, m)]

\* bool empty() const { return size_ == 0; }
bst_empty == bst_size = 0

\* What a public call can come to: it returns a value, throws
\* std::out_of_range, or runs into undefined behaviour: the dereference of
\* the nullptr that find_min / find_max return for an absent root either
\* faults ("segv") or hands back a reference to no element ("wild_ref").
NullDeref == {"segv", "wild_ref"}

BSTInit ==
    /\ bst_root = Nil
    /\ bst_size = 0
    /\ bst_res = [call |-> "new", kind |-> "done", val |-> 0]

BSTCanCall == bst_res.kind # "segv"

\* void insert(const T& value)
bst_insert(value) ==
    /\ BSTCanCall
    /\ bst_size < MaxSize
    /\ bst_root' = bst_insert_recursive(bst_root, value)
    /\ bst_size' = bst_size + 1
    /\ bst_res' = [call |-> "insert", kind |-> "done", val |-> 0]

\* void remove(const T& value)
bst_remove(value) ==
    /\ BSTCanCall
    /\ IF bst_contains(value)
       THEN /\ bst_root' = bst_remove_recursive(bst_root, value)
            /\ bst_size' = bst_size - 1
       ELSE UNCHANGED <<bst_root, bst_size>>
    /\ bst_res' = [call |-> "remove", kind |-> "done", val |-> 0]

\* T& min(): throws when empty(), else find_min(root.get())->data
bst_min ==
    /\ BSTCanCall
    /\ IF bst_empty
       THEN bst_res' = [call |-> "min", kind |-> "out_of_range", val |-> 0]
       ELSE IF IsNil(bst_find_min(bst_root))
       THEN \E o \in NullDeref : bst_res' = [call |-> "min", kind |-> o, val |-> 0]
       ELSE bst_res' = [call |-> "min", kind |-> "value",
                        val |-> bst_find_min(bst_root).data]
    /\ UNCHANGED <<bst_root, bst_size>>

\* T& max(): throws when empty(), else find_max(root.get())->data
bst_max ==
    /\ BSTCanCall
    /\ IF bst_empty
       THEN bst_res' = [call |-> "max", kind |-> "out_of_range", val |-> 0]
       ELSE IF IsNil(bst_find_max(bst_root))
       THEN \E o \in NullDeref : bst_res' = [call |-> "max", kind |-> o, val |-> 0]
       ELSE bst_res' = [call |-> "max", kind |-> "value",
                        val |-> bst_find_max(bst_root).data]
    /\ UNCHANGED <<bst_root, bst_size>>

BSTInsert == \E k \in Key : bst_insert(k) /\ UNCHANGED <<avlVars, tripVars, contVars, restVars>>

BSTRemove == \E k \in Key : bst_remove(k) /\ UNCHANGED <<avlVars, tripVars, contVars, restVars>>

BSTMin == bst_min /\ UNCHANGED <<avlVars, tripVars, contVars, restVars>>

BSTMax == bst_max /\ UNCHANGED <<avlVars, tripVars, contVars, restVars>>

\* ---------------------------------------------------- Stack, Queue, Heap
Container == {"Stack", "Queue", "Heap"}

\* capacity = static_cast<size_t>(capacity * 1.5); the data.reserve(capacity)
\* that follows only reserves storage and is not part of the state
resize_capacity(capacity) == (capacity * 3) \div 2

\* Compare = std::less<T>
comp(a, b) == a < b

\* element i of a std::vector, 0-based as in the source
At(data, i) == data[i + 1]

\* std::swap(data[i], data[j])
SwapAt(data, i, j) ==
    [data EXCEPT ![i + 1] = data[j + 1], ![j + 1] = data[i + 1]]

\* Heap::heapify_up(index)
RECURSIVE heapify_up(_, _)
heapify_up(data, index) ==
    IF index > 0
    THEN LET parent == (index - 1) \div 2
         IN IF comp(At(data, parent), At(data, index))
            THEN data
            ELSE heapify_up(SwapAt(data, index, parent), parent)
    ELSE data

\* Heap::heapify_down(index)
RECURSIVE heapify_down(_, _)
heapify_down(data, index) ==
    LET heap_size == Len(data)
        left      == 2 * index + 1
        right     == 2 * index + 2
        l1 == IF left < heap_size /\ comp(At(data, index), At(data, left))
              THEN left ELSE index
        largest == IF right < heap_size /\ comp(At(data, l1), At(data, right))
                   THEN right ELSE l1
    IN IF largest = index
       THEN data
       ELSE heapify_down(SwapAt(data, index, largest), largest)

\* bool Heap::is_heap(): std::is_heap(data.begin(), data.end(), comp), no
\* element compares below its child under comp
is_heap ==
    \A i \in 1..(Len(heap_data) - 1) :
        ~comp(At(heap_data, (i - 1) \div 2), At(heap_data, i))

\* Stack(size_t initial_capacity), Queue(size_t initial_capacity), Heap()
ContInit ==
    /\ stack_data = <<>>
    /\ stack_capacity = InitialCapacity
    /\ queue_data = <<>>
    /\ queue_capacity = InitialCapacity
    /\ heap_data = <<>>
    /\ cont_res = [call |-> "new", prev |-> "new", kind |-> "done", val |-> 0]

Returned(call, kind, val) ==
    [call |-> call, prev |-> cont_res.call, kind |-> kind, val |-> val]

\* T& Stack::top()
stack_top ==
    /\ under_test = "Stack"
    /\ IF stack_data = <<>>
       THEN cont_res' = Returned("Stack::top", "out_of_range", 0)
       ELSE cont_res' = Returned("Stack::top", "value", stack_data[Len(stack_data)])
    /\ UNCHANGED <<stack_data, stack_capacity, queue_data, queue_capacity, heap_data, under_test>>

\* void Stack::push(const T& value)
stack_push(value) ==
    /\ under_test = "Stack"
    /\ Len(stack_data) < MaxLen
    /\ stack_capacity' = IF Len(stack_data) >= stack_capacity
                         THEN resize_capacity(stack_capacity)
                         ELSE stack_capacity
    /\ stack_data' = Append(stack_data, value)
    /\ cont_res' = Returned("Stack::push", "done", 0)
    /\ UNCHANGED <<queue_data, queue_capacity, heap_data, under_test>>

\* void Stack::pop()
stack_pop ==
    /\ under_test = "Stack"
    /\ IF stack_data = <<>>
       THEN /\ cont_res' = Returned("Stack::pop", "out_of_range", 0)
            /\ UNCHANGED stack_data
       ELSE /\ stack_data' = SubSeq(stack_data, 1, Len(stack_data) - 1)
            /\ cont_res' = Returned("Stack::pop", "done", 0)
    /\ UNCHANGED <<stack_capacity, queue_data, queue_capacity, heap_data, under_test>>

\* T& Queue::front()
queue_front ==
    /\ under_test = "Queue"
    /\ IF queue_data = <<>>
       THEN cont_res' = Returned("Queue::front", "out_of_range", 0)
       ELSE cont_res' = Returned("Queue::front", "value", Head(queue_data))
    /\ UNCHANGED <<stack_data, stack_capacity, queue_data, queue_capacity, heap_data, under_test>>

\* void Queue::push(const T& value)
queue_push(value) ==
    /\ under_test = "Queue"
    /\ Len(queue_data) < MaxLen
    /\ queue_capacity' = IF Len(queue_data) >= queue_capacity
                         THEN resize_capacity(queue_capacity)
                         ELSE queue_capacity
    /\ queue_data' = Append(queue_data, value)
    /\ cont_res' = Returned("Queue::push", "done", 0)
    /\ UNCHANGED <<stack_data, stack_capacity, heap_data, under_test>>

\* void Queue::pop()
queue_pop ==
    /\ under_test = "Queue"
    /\ IF queue_data = <<>>
       THEN /\ cont_res' = Returned("Queue::pop", "out_of_range", 0)
            /\ UNCHANGED queue_data
       ELSE /\ queue_data' = Tail(queue_data)
            /\ cont_res' = Returned("Queue::pop", "done", 0)
    /\ UNCHANGED <<stack_data, stack_capacity, queue_capacity, heap_data, under_test>>

\* Heap::top with the empty() test lost: hands back a default element
heap_top_unchecked ==
    /\ under_test = "Heap"
    /\ IF heap_data = <<>>
       THEN cont_res' = Returned("Heap::top", "value", 0)
       ELSE cont_res' = Returned("Heap::top", "value", At(heap_data, 0))
    /\ UNCHANGED <<stack_data, stack_capacity, queue_data, queue_capacity, heap_data, under_test>>

\* T& Heap::top()
heap_top ==
    /\ under_test = "Heap"
    /\ IF heap_data = <<>>
       THEN cont_res' = Returned("Heap::top", "out_of_range", 0)
       ELSE cont_res' = Returned("Heap::top", "value", At(heap_data, 0))
    /\ UNCHANGED <<stack_data, stack_capacity, queue_data, queue_capacity, heap_data, under_test>>

\* void Heap::push(const T& value)
heap_push(value) ==
    /\ under_test = "Heap"
    /\ Len(heap_data) < MaxLen
    /\ heap_data' = heapify_up(Append(heap_data, value), Len(heap_data))
    /\ cont_res' = Returned("Heap::push", "done", 0)
    /\ UNCHANGED <<stack_data, stack_capacity, queue_data, queue_capacity, under_test>>

\* void Heap::pop()
heap_pop ==
    /\ under_test = "Heap"
    /\ IF heap_data = <<>>
       THEN /\ cont_res' = Returned("Heap::pop", "out_of_range", 0)
            /\ UNCHANGED heap_data
       ELSE LET moved == [heap_data EXCEPT ![1] = heap_data[Len(heap_data)]]
                cut   == SubSeq(moved, 1, Len(moved) - 1)
            IN /\ heap_data' = IF cut # <<>> THEN heapify_down(cut, 0) ELSE cut
               /\ cont_res' = Returned("Heap::pop", "done", 0)
    /\ UNCHANGED <<stack_data, stack_capacity, queue_data, queue_capacity, under_test>>

StackTop == stack_top /\ UNCHANGED <<avlVars, tripVars, bstVars, restVars>>

StackPush == \E v \in Val : stack_push(v) /\ UNCHANGED <<avlVars, tripVars, bstVars, restVars>>

StackPop == stack_pop /\ UNCHANGED <<avlVars, tripVars, bstVars, restVars>>

QueueFront == queue_front /\ UNCHANGED <<avlVars, tripVars, bstVars, restVars>>

QueuePush == \E v \in Val : queue_push(v) /\ UNCHANGED <<avlVars, tripVars, bstVars, restVars>>

QueuePop == queue_pop /\ UNCHANGED <<avlVars, tripVars, bstVars, restVars>>

HeapTop == heap_top /\ UNCHANGED <<avlVars, tripVars, bstVars, restVars>>

HeapPush == \E v \in Val : heap_push(v) /\ UNCHANGED <<avlVars, tripVars, bstVars, restVars>>

HeapPop == heap_pop /\ UNCHANGED <<avlVars, tripVars, bstVars, restVars>>

\* ------------------------------- ArrayDS, CircularQueue, CircularLinkedList
Indexed == {"ArrayDS", "CircularQueue", "CircularLinkedList"}

\* the positions asked for: inside, at and past the end of every container
Index == 0..(MaxLen + 1)

\* what a read or write through a pointer to a deleted node can do
DanglingUse == {"abort", "go_on"}

\* ArrayDS::resize_capacity(): capacity *= GROWTH_FACTOR (1.5), truncated
arr_resize_capacity(capacity) == (capacity * 3) \div 2

\* the sequence s without its element at 0-based position i
EraseAt(s, i) == SubSeq(s, 1, i) \o SubSeq(s, i + 2, Len(s))

\* the sequence s with v put in at 0-based position i
InsertAt(s, i, v) == SubSeq(s, 1, i) \o <<v>> \o SubSeq(s, i + 1, Len(s))

\* explicit ArrayDS(size_t), explicit CircularQueue(size_t) (the vector is
\* value-initialised: zeros), CircularLinkedList()
IdxInit ==
    /\ arr_data = <<>> /\ arr_capacity = InitialCapacity /\ arr_size = 0
    /\ buffer = [i \in 1..InitialCapacity |-> 0]
    /\ front_index = 0 /\ rear_index = 0 /\ count_ = 0
    /\ cll_data = <<>> /\ cll_size = 0
    /\ cll_freed = FALSE /\ cll_dead = FALSE
    /\ at_res = [call |-> "new", index |-> 0, kind |-> "done", val |-> 0]

\* the outcome of a call: kind is "done" (returned nothing), "value"
\* (returned a reference to val), "out_of_range" or "overflow_error" (threw),
\* "wild_ref" (returned a reference into a deleted node) or "abort" (died)
Outcome(call, index, kind, val) ==
    at_res' = [call |-> call, index |-> index, kind |-> kind, val |-> val]

\* T& ArrayDS::at(size_t index)
arr_at(index) ==
    /\ under_test = "ArrayDS"
    /\ IF index >= arr_size
       THEN Outcome("ArrayDS::at", index, "out_of_range", 0)
       ELSE Outcome("ArrayDS::at", index, "value", At(arr_data, index))
    /\ UNCHANGED <<arr_data, arr_capacity, arr_size>>

\* void ArrayDS::push_back(const T& value)
arr_push_back(value) ==
    /\ under_test = "ArrayDS"
    /\ arr_size < MaxLen
    /\ arr_capacity' = IF arr_size >= arr_capacity
                       THEN arr_resize_capacity(arr_capacity)
                       ELSE arr_capacity
    /\ arr_data' = Append(arr_data, value)
    /\ arr_size' = arr_size + 1
    /\ Outcome("ArrayDS::push_back", 0, "done", 0)

\* void ArrayDS::pop_back()
arr_pop_back ==
    /\ under_test = "ArrayDS"
    /\ IF arr_size # 0
       THEN /\ arr_data' = SubSeq(arr_data, 1, Len(arr_data) - 1)
            /\ arr_size' = arr_size - 1
       ELSE UNCHANGED <<arr_data, arr_size>>
    /\ UNCHANGED arr_capacity
    /\ Outcome("ArrayDS::pop_back", 0, "done", 0)

\* void ArrayDS::insert(size_t index, const T& value)
arr_insert(index, value) ==
    /\ under_test = "ArrayDS"
    /\ arr_size < MaxLen
    /\ IF index > arr_size
       THEN /\ Outcome("ArrayDS::insert", index, "out_of_range", 0)
            /\ UNCHANGED <<arr_data, arr_capacity, arr_size>>
       ELSE /\ arr_capacity' = IF arr_size >= arr_capacity
                               THEN arr_resize_capacity(arr_capacity)
                               ELSE arr_capacity
            /\ arr_data' = InsertAt(arr_data, index, value)
            /\ arr_size' = arr_size + 1
            /\ Outcome("ArrayDS::insert", index, "done", 0)

\* void ArrayDS::erase(size_t index)
arr_erase(index) ==
    /\ under_test = "ArrayDS"
    /\ IF index >= arr_size
       THEN /\ Outcome("ArrayDS::erase", index, "out_of_range", 0)
            /\ UNCHANGED <<arr_data, arr_size>>
       ELSE /\ arr_data' = EraseAt(arr_data, index)
            /\ arr_size' = arr_size - 1
            /\ Outcome("ArrayDS::erase", index, "done", 0)
    /\ UNCHANGED arr_capacity

\* CircularQueue::at with the bound test off by one
cq_at_late(index) ==
    /\ under_test = "CircularQueue"
    /\ IF index > count_
       THEN Outcome("CircularQueue::at", index, "out_of_range", 0)
       ELSE Outcome("CircularQueue::at", index, "value",
                    At(buffer, (front_index + index) % Len(buffer)))
    /\ UNCHANGED <<buffer, front_index, rear_index, count_>>

\* T& CircularQueue::at(size_t index)
cq_at(index) ==
    /\ under_test = "CircularQueue"
    /\ IF index >= count_
       THEN Outcome("CircularQueue::at", index, "out_of_range", 0)
       ELSE Outcome("CircularQueue::at", index, "value",
                    At(buffer, (front_index + index) % Len(buffer)))
    /\ UNCHANGED <<buffer, front_index, rear_index, count_>>

\* void CircularQueue::push(const T& value)
cq_push(value) ==
    /\ under_test = "CircularQueue"
    /\ IF count_ = Len(buffer)
       THEN /\ Outcome("CircularQueue::push", 0, "overflow_error", 0)
            /\ UNCHANGED <<buffer, rear_index, count_>>
       ELSE /\ buffer' = [buffer EXCEPT ![rear_index + 1] = value]
            /\ rear_index' = (rear_index + 1) % Len(buffer)
            /\ count_' = count_ + 1
            /\ Outcome("CircularQueue::push", 0, "done", 0)
    /\ UNCHANGED front_index

\* CircularQueue::pop taking the newest element instead of the oldest
cq_pop_from_back ==
    /\ under_test = "CircularQueue"
    /\ IF count_ = 0
       THEN /\ Outcome("CircularQueue::pop", 0, "out_of_range", 0)
            /\ UNCHANGED <<rear_index, count_>>
       ELSE /\ rear_index' = (rear_index - 1 + Len(buffer)) % Len(buffer)
            /\ count_' = count_ - 1
            /\ Outcome("CircularQueue::pop", 0, "done", 0)
    /\ UNCHANGED <<buffer, front_index>>

\* void CircularQueue::pop()
cq_pop ==
    /\ under_test = "CircularQueue"
    /\ IF count_ = 0
       THEN /\ Outcome("CircularQueue::pop", 0, "out_of_range", 0)
            /\ UNCHANGED <<front_index, count_>>
       ELSE /\ front_index' = (front_index + 1) % Len(buffer)
            /\ count_' = count_ - 1
            /\ Outcome("CircularQueue::pop", 0, "done", 0)
    /\ UNCHANGED <<buffer, rear_index>>

\* the queue's elements from front to back
Contents ==
    [i \in 1..count_ |-> At(buffer, (front_index + i - 1) % Len(buffer))]

\* T& CircularQueue::front()
cq_front ==
    /\ under_test = "CircularQueue"
    /\ IF count_ = 0
       THEN Outcome("CircularQueue::front", 0, "out_of_range", 0)
       ELSE Outcome("CircularQueue::front", 0, "value", At(buffer, front_index))
    /\ UNCHANGED <<buffer, front_index, rear_index, count_>>

\* the members of a CircularQueue as one record
cq_this ==
    [buffer |-> buffer, front_index |-> front_index,
     rear_index |-> rear_index, count_ |-> count_]

\* the for loop of rotate, with n rounds left: T value = pop_and_get();
\* push(value); (the queue is not empty before the pop and not full after it,
\* so neither call throws)
RECURSIVE rotate_loop(_, _)
rotate_loop(q, n) ==
    IF n = 0 THEN q
    ELSE LET size  == Len(q.buffer)
             value == At(q.buffer, q.front_index)
             front == (q.front_index + 1) % size
         IN rotate_loop([buffer      |-> [q.buffer EXCEPT ![q.rear_index + 1] = value],
                         front_index |-> front,
                         rear_index  |-> (q.rear_index + 1) % size,
                         count_      |-> q.count_],
                        n - 1)

\* the for loop of rotate_reverse, with n rounds left: T value = back();
\* pop(); front_index = (front_index - 1 + buffer.size()) % buffer.size();
\* buffer[front_index] = std::move(value); count_++;
RECURSIVE rotate_reverse_loop(_, _)
rotate_reverse_loop(q, n) ==
    IF n = 0 THEN q
    ELSE LET size   == Len(q.buffer)
             value  == At(q.buffer, (q.rear_index - 1 + size) % size)
             popped == (q.front_index + 1) % size
             front  == (popped - 1 + size) % size
         IN rotate_reverse_loop([buffer      |-> [q.buffer EXCEPT ![front + 1] = value],
                                 front_index |-> front,
                                 rear_index  |-> q.rear_index,
                                 count_      |-> (q.count_ - 1) + 1],
                                n - 1)

\* the outcome of rotate and rotate_reverse also keeps the elements the
\* queue held, front to back, when the call was made
Rotated(call, positions, q) ==
    /\ buffer' = q.buffer
    /\ front_index' = q.front_index
    /\ rear_index' = q.rear_index
    /\ count_' = q.count_
    /\ at_res' = [call |-> call, index |-> positions, kind |-> "done", val |-> 0,
                  before |-> Contents]

\* void CircularQueue::rotate(size_t positions)
cq_rotate(positions) ==
    /\ under_test = "CircularQueue"
    /\ IF count_ = 0 \/ positions = 0
       THEN Rotated("CircularQueue::rotate", positions, cq_this)
       ELSE Rotated("CircularQueue::rotate", positions,
                    rotate_loop(cq_this, positions % count_))

\* void CircularQueue::rotate_reverse(size_t positions)
cq_rotate_reverse(positions) ==
    /\ under_test = "CircularQueue"
    /\ IF count_ = 0 \/ positions = 0
       THEN Rotated("CircularQueue::rotate_reverse", positions, cq_this)
       ELSE Rotated("CircularQueue::rotate_reverse", positions,
                    rotate_reverse_loop(cq_this, positions % count_))

\* a terminated process makes no further call
CLLCanCall == ~cll_dead

\* CircularLinkedList::make_circular() gives tail->next a second owning
\* pointer to the head node. The first push on a new list is defined; every
\* later LinkedList modifier resets or moves one of the two owners, which
\* deletes a node that stays linked, and goes on using it.
\* void CircularLinkedList::push_back(const T& value)
cll_push_back(value) ==
    /\ under_test = "CircularLinkedList"
    /\ CLLCanCall
    /\ cll_size < MaxLen
    /\ IF cll_size = 0 /\ ~cll_freed
       THEN /\ cll_data' = <<value>>
            /\ cll_size' = 1
            /\ UNCHANGED <<cll_freed, cll_dead>>
            /\ Outcome("CircularLinkedList::push_back", 0, "done", 0)
       ELSE \E o \in DanglingUse :
                IF o = "abort"
                THEN /\ cll_dead' = TRUE
                     /\ UNCHANGED <<cll_data, cll_size, cll_freed>>
                     /\ Outcome("CircularLinkedList::push_back", 0, "abort", 0)
                ELSE /\ cll_freed' = TRUE
                     /\ cll_data' = <<>>
                     /\ cll_size' = cll_size + 1
                     /\ UNCHANGED cll_dead
                     /\ Outcome("CircularLinkedList::push_back", 0, "done", 0)

\* void CircularLinkedList::pop_front()
cll_pop_front ==
    /\ under_test = "CircularLinkedList"
    /\ CLLCanCall
    /\ IF cll_size = 0
       THEN /\ Outcome("CircularLinkedList::pop_front", 0, "out_of_range", 0)
            /\ UNCHANGED <<cll_data, cll_size, cll_freed, cll_dead>>
       ELSE \E o \in DanglingUse :
                IF o = "abort"
                THEN /\ cll_dead' = TRUE
                     /\ UNCHANGED <<cll_data, cll_size, cll_freed>>
                     /\ Outcome("CircularLinkedList::pop_front", 0, "abort", 0)
                ELSE /\ cll_freed' = TRUE
                     /\ cll_data' = <<>>
                     /\ cll_size' = cll_size - 1
                     /\ UNCHANGED cll_dead
                     /\ Outcome("CircularLinkedList::pop_front", 0, "done", 0)

\* T& CircularLinkedList::at(size_t index): index %= size_, then
\* LinkedList::at(index), with its own bound test, and get_node_at(index),
\* which walks the nodes from head
cll_at(index) ==
    /\ under_test = "CircularLinkedList"
    /\ CLLCanCall
    /\ IF cll_size = 0
       THEN /\ Outcome("CircularLinkedList::at", index, "out_of_range", 0)
            /\ UNCHANGED cll_dead
       ELSE LET wrapped == index % cll_size
            IN IF wrapped >= cll_size
               THEN /\ Outcome("CircularLinkedList::at", index, "out_of_range", 0)
                    /\ UNCHANGED cll_dead
               ELSE IF ~cll_freed
               THEN /\ Outcome("CircularLinkedList::at", index, "value",
                               At(cll_data, wrapped))
                    /\ UNCHANGED cll_dead
               ELSE \E o \in DanglingUse :
                        IF o = "abort"
                        THEN /\ cll_dead' = TRUE
                             /\ Outcome("CircularLinkedList::at", index, "abort", 0)
                        ELSE /\ UNCHANGED cll_dead
                             /\ Outcome("CircularLinkedList::at", index, "wild_ref", 0)
    /\ UNCHANGED <<cll_data, cll_size, cll_freed>>

arrFrame == <<avlVars, tripVars, bstVars, contVars, scenVars, rotVars, lateVars,
              buffer, front_index, rear_index, count_,
              cll_data, cll_size, cll_freed, cll_dead>>
cqFrame == <<avlVars, tripVars, bstVars, contVars, scenVars, rotVars, lateVars,
             arr_data, arr_capacity, arr_size,
             cll_data, cll_size, cll_freed, cll_dead>>
cllFrame == <<avlVars, tripVars, bstVars, contVars, scenVars, rotVars, lateVars,
              arr_data, arr_capacity, arr_size,
              buffer, front_index, rear_index, count_>>

ArrAt == \E i \in Index : arr_at(i) /\ UNCHANGED arrFrame

ArrPushBack == \E v \in Val : arr_push_back(v) /\ UNCHANGED arrFrame

ArrPopBack == arr_pop_back /\ UNCHANGED arrFrame

ArrInsert == \E i \in Index, v \in Val : arr_insert(i, v) /\ UNCHANGED arrFrame

ArrErase == \E i \in Index : arr_erase(i) /\ UNCHANGED arrFrame

CQAt == \E i \in Index : cq_at(i) /\ UNCHANGED cqFrame

CQPush == \E v \in Val : cq_push(v) /\ UNCHANGED cqFrame

CQPop == cq_pop /\ UNCHANGED cqFrame

CQFront == cq_front /\ UNCHANGED cqFrame

CQRotate == \E k \in Index : cq_rotate(k) /\ UNCHANGED cqFrame

CQRotateReverse == \E k \in Index : cq_rotate_reverse(k) /\ UNCHANGED cqFrame

CLLAt == \E i \in Index : cll_at(i) /\ UNCHANGED cllFrame

CLLPushBack == \E v \in Val : cll_push_back(v) /\ UNCHANGED cllFrame

CLLPopFront == cll_pop_front /\ UNCHANGED cllFrame

\* ------------------------------------------------- scenarios on an AVLTree
\* size_t height() const
height == height_recursive(root)

\* one call of a client on the tree
Call(op, key) == [op |-> op, key |-> key]

IsPrefix(p, s) == Len(p) <= Len(s) /\ SubSeq(s, 1, Len(p)) = p

\* every order in which the keys of a set can be handed over
Orders(S) ==
    {o \in [1..Cardinality(S) -> S] :
        \A i, j \in 1..Cardinality(S) : i # j => o[i] # o[j]}

Inserts(keys) == [i \in 1..Len(keys) |-> Call("insert", keys[i])]

ThreeKeys == {10, 20, 30}
Ascending == [i \in 1..7 |-> i]
Descending == [i \in 1..7 |-> 8 - i]
ScenKeys == ThreeKeys \cup (1..7)

\* what a client does: insert three keys in some order, or the keys 1..7
\* in ascending or descending order, and then remove one of the keys
Scenarios ==
    {Inserts(o) \o <<Call("remove", k)>> : o \in Orders(ThreeKeys), k \in ThreeKeys}
    \cup {Inserts(Ascending) \o <<Call("remove", k)>> : k \in 1..7}
    \cup {Inserts(Descending) \o <<Call("remove", k)>> : k \in 1..7}

\* the client's next call, given the calls it has made
Allowed(call) == \E sc \in Scenarios : IsPrefix(Append(ran, call), sc)

ScenIdle == ran = <<>>

ScenInsert ==
    \E k \in ScenKeys :
        /\ Allowed(Call("insert", k))
        /\ insert(k)
        /\ ran' = Append(ran, Call("insert", k))
        /\ UNCHANGED <<tripVars, bstVars, contVars, rotVars, idxVars, lateVars>>

ScenRemove ==
    \E k \in ScenKeys :
        /\ Allowed(Call("remove", k))
        /\ remove(k)
        /\ ran' = Append(ran, Call("remove", k))
        /\ UNCHANGED <<tripVars, bstVars, contVars, rotVars, idxVars, lateVars>>

\* ------------------------------------------------------------ one rotation
NoRotation == [call |-> "none", first |-> Nil, second |-> Nil, result |-> Nil]

\* every search tree over keys of lo..hi, each node caching its height
RECURSIVE Trees(_, _)
Trees(lo, hi) ==
    {Nil} \cup
    UNION {{update_height([data |-> k, left |-> l, right |-> r, height |-> 1]) :
                l \in Trees(lo, k - 1), r \in Trees(k + 1, hi)} :
           k \in lo..hi}

RotIdle == rot_in = Nil /\ rot_out = NoRotation

\* right_rotate is handed a subtree whose root has a left child; first and
\* second are the handles its two height updates go through, in order
RotateRight ==
    /\ rot_out.call = "none"
    /\ ~IsNil(rot_in) /\ ~IsNil(rot_in.left)
    /\ rot_out' = [call   |-> "right_rotate",
                   first  |-> right_rotate_moves(rot_in).y,
                   second |-> right_rotate_moves(rot_in).x,
                   result |-> right_rotate(rot_in)]
    /\ UNCHANGED <<avlVars, tripVars, bstVars, contVars, scenVars, idxVars, lateVars,
                 rot_in>>

\* left_rotate is handed a subtree whose root has a right child
RotateLeft ==
    /\ rot_out.call = "none"
    /\ ~IsNil(rot_in) /\ ~IsNil(rot_in.right)
    /\ rot_out' = [call   |-> "left_rotate",
                   first  |-> left_rotate_moves(rot_in).x,
                   second |-> left_rotate_moves(rot_in).y,
                   result |-> left_rotate(rot_in)]
    /\ UNCHANGED <<avlVars, tripVars, bstVars, contVars, scenVars, idxVars, lateVars,
                 rot_in>>

\* -------------------------------------------------------------- LinkedList
\* explicit LinkedList()
ListInit ==
    /\ ll_nodes = <<>> /\ ll_head = 0 /\ ll_tail = 0 /\ ll_size = 0
    /\ ll_dead = FALSE
    /\ ll_res = [call |-> "new", kind |-> "done"]

\* ListNode(const T& value): data, next (owning), prev (raw), both null
ListNode(value) == [data |-> value, next |-> 0, prev |-> 0]

\* the address std::make_unique hands out: one no live node has
NewAddress ==
    CHOOSE a \in 1..(Cardinality(DOMAIN ll_nodes) + 1) : a \notin DOMAIN ll_nodes

\* the nodes a unique_ptr deletes when it lets go of address a: the node
\* and, through the destructor of its next, every node after it
RECURSIVE Owned(_, _)
Owned(store, a) ==
    IF a = 0 \/ a \notin DOMAIN store THEN {}
    ELSE {a} \cup Owned([b \in DOMAIN store \ {a} |-> store[b]], store[a].next)

Without(store, gone) == [b \in DOMAIN store \ gone |-> store[b]]

\* what an access through a null pointer does: the process dies, or it
\* goes on with garbage; neither leaves a list the model follows further
NullUse == {"segv", "garbage"}

LLCanCall == ~ll_dead

LLOutcome(call, kind) == ll_res' = [call |-> call, kind |-> kind]

\* void LinkedList::push_front(const T& value)
ll_push_front(value) ==
    /\ LLCanCall
    /\ ll_size < MaxLen
    /\ LET a      == NewAddress
           \* new_node->next = std::move(head): head is null from here on
           moved  == [head |-> 0, new_node |-> [ListNode(value) EXCEPT !.next = ll_head]]
           \* if (head) head->prev = new_node.get();
           store  == IF moved.head # 0
                     THEN [ll_nodes EXCEPT ![moved.head].prev = a]
                     ELSE ll_nodes
       IN /\ ll_nodes' = (a :> moved.new_node) @@ store
          /\ ll_head' = a
          /\ ll_tail' = IF ll_tail = 0 THEN a ELSE ll_tail
    /\ ll_size' = ll_size + 1
    /\ UNCHANGED ll_dead
    /\ LLOutcome("push_front", "done")

\* void LinkedList::push_back(const T& value)
ll_push_back(value) ==
    /\ LLCanCall
    /\ ll_size < MaxLen
    /\ LET a        == NewAddress
           new_node == [ListNode(value) EXCEPT !.prev = ll_tail]
       IN IF ll_tail # 0
          THEN LET kept == Without(ll_nodes, Owned(ll_nodes, ll_nodes[ll_tail].next))
               IN /\ ll_nodes' = (a :> new_node) @@ [kept EXCEPT ![ll_tail].next = a]
                  /\ ll_tail' = a
                  /\ UNCHANGED ll_head
          ELSE /\ ll_nodes' = (a :> new_node) @@ Without(ll_nodes, Owned(ll_nodes, ll_head))
               /\ ll_head' = a
               /\ ll_tail' = a
    /\ ll_size' = ll_size + 1
    /\ UNCHANGED ll_dead
    /\ LLOutcome("push_back", "done")

\* void LinkedList::pop_front()
ll_pop_front ==
    /\ LLCanCall
    /\ IF ll_size = 0
       THEN /\ LLOutcome("pop_front", "out_of_range")
            /\ UNCHANGED <<ll_nodes, ll_head, ll_tail, ll_size, ll_dead>>
       ELSE IF ll_head = 0
       THEN \E o \in NullUse :
                /\ LLOutcome("pop_front", o)
                /\ ll_dead' = TRUE
                /\ UNCHANGED <<ll_nodes, ll_head, ll_tail, ll_size>>
       ELSE LET next == ll_nodes[ll_head].next
                kept == Without(ll_nodes, {ll_head})
            IN /\ ll_head' = next
               /\ IF next # 0
                  THEN /\ ll_nodes' = [kept EXCEPT ![next].prev = 0]
                       /\ UNCHANGED ll_tail
                  ELSE /\ ll_nodes' = kept
                       /\ ll_tail' = 0
               /\ ll_size' = ll_size - 1
               /\ UNCHANGED ll_dead
               /\ LLOutcome("pop_front", "done")

\* void LinkedList::pop_back()
ll_pop_back ==
    /\ LLCanCall
    /\ IF ll_size = 0
       THEN /\ LLOutcome("pop_back", "out_of_range")
            /\ UNCHANGED <<ll_nodes, ll_head, ll_tail, ll_size, ll_dead>>
       ELSE IF ll_head = ll_tail
       THEN /\ ll_nodes' = Without(ll_nodes, Owned(ll_nodes, ll_head))
            /\ ll_head' = 0
            /\ ll_tail' = 0
            /\ ll_size' = ll_size - 1
            /\ UNCHANGED ll_dead
            /\ LLOutcome("pop_back", "done")
       ELSE LET prev == IF ll_tail = 0 THEN 0 ELSE ll_nodes[ll_tail].prev
            IN IF prev = 0
               \* tail = tail->prev; tail->next.reset(); with tail null
               THEN \E o \in NullUse :
                        /\ LLOutcome("pop_back", o)
                        /\ ll_dead' = TRUE
                        /\ UNCHANGED <<ll_nodes, ll_head, ll_tail, ll_size>>
               ELSE LET kept == Without(ll_nodes, Owned(ll_nodes, ll_nodes[prev].next))
                    IN /\ ll_nodes' = [kept EXCEPT ![prev].next = 0]
                       /\ ll_tail' = prev
                       /\ ll_size' = ll_size - 1
                       /\ UNCHANGED <<ll_head, ll_dead>>
                       /\ LLOutcome("pop_back", "done")

listFrame == <<avlVars, tripVars, bstVars, contVars, scenVars, rotVars, idxVars,
               sortVars, searchVars, graphVars, dsVars>>

LLPushFront == \E v \in Val : ll_push_front(v) /\ UNCHANGED listFrame

LLPushBack == \E v \in Val : ll_push_back(v) /\ UNCHANGED listFrame

LLPopFront == ll_pop_front /\ UNCHANGED listFrame

LLPopBack == ll_pop_back /\ UNCHANGED listFrame

\* the nodes reached from address a through next, in order
RECURSIVE ChainFrom(_, _)
ChainFrom(a, seen) ==
    IF a = 0 \/ a \in seen \/ a \notin DOMAIN ll_nodes THEN <<>>
    ELSE <<a>> \o ChainFrom(ll_nodes[a].next, seen \cup {a})

\* --------------------------------------------------------------- QuickSort
SortIdle ==
    /\ qs_arr = <<>> /\ qs_strategy = "none"
    /\ qs_res = [kind |-> "none", arr |-> <<>>]

PivotStrategy ==
    {"LAST", "FIRST", "MIDDLE", "RANDOM", "MEDIAN_OF_THREE", "NINTHELEMENT"}

\* static T median_of_three(arr, low, high)
median_of_three(arr, low, high) ==
    LET mid == low + (high - low) \div 2
        a   == At(arr, low)
        b   == At(arr, mid)
        c   == At(arr, high)
    IN IF a > b
       THEN (IF b > c THEN b ELSE IF a > c THEN c ELSE a)
       ELSE (IF a > c THEN a ELSE IF b > c THEN c ELSE b)

\* static T get_pivot(arr, low, high, strategy): the values it can return;
\* RANDOM draws its index from low..high
get_pivot(arr, low, high, strategy) ==
    CASE strategy = "FIRST"  -> {At(arr, low)}
      [] strategy = "LAST"   -> {At(arr, high)}
      [] strategy = "MIDDLE" -> {At(arr, low + (high - low) \div 2)}
      [] strategy = "RANDOM" -> {At(arr, i) : i \in low..high}
      [] strategy = "MEDIAN_OF_THREE" -> {median_of_three(arr, low, high)}
      [] strategy = "NINTHELEMENT" -> {At(arr, low + (high - low) \div 9)}
      [] OTHER -> {At(arr, high)}

\* the for loop of partition, from its index j on
RECURSIVE partition_loop(_, _, _, _, _)
partition_loop(arr, i, j, high, pivot) ==
    IF j < high
    THEN IF At(arr, j) <= pivot
         THEN partition_loop(SwapAt(arr, i, j), i + 1, j + 1, high, pivot)
         ELSE partition_loop(arr, i, j + 1, high, pivot)
    ELSE [arr |-> SwapAt(arr, i, high), pi |-> i]

\* static size_t partition(arr, low, high, strategy), for the pivot drawn
partition(arr, low, high, pivot) == partition_loop(arr, low, low, high, pivot)

\* static void quick_sort_recursive(arr, low, high, strategy): the vectors
\* it can leave
RECURSIVE quick_sort_recursive(_, _, _, _)
quick_sort_recursive(arr, low, high, strategy) ==
    IF low < high
    THEN UNION {
            LET p     == partition(arr, low, high, pivot)
                lefts == IF p.pi > 0
                         THEN quick_sort_recursive(p.arr, low, p.pi - 1, strategy)
                         ELSE {p.arr}
            IN UNION {quick_sort_recursive(a, p.pi + 1, high, strategy) : a \in lefts}
            : pivot \in get_pivot(arr, low, high, strategy)}
    ELSE {arr}

\* static void QuickSort::sort(arr, strategy)
sort(arr, strategy) ==
    IF Len(arr) <= 1 THEN {arr}
    ELSE quick_sort_recursive(arr, 0, Len(arr) - 1, strategy)

\* one call of QuickSort::sort on the vector and strategy handed over
QuickSortCall ==
    /\ qs_res.kind = "none"
    /\ \E r \in sort(qs_arr, qs_strategy) : qs_res' = [kind |-> "returned", arr |-> r]
    /\ UNCHANGED <<qs_arr, qs_strategy>>
    /\ UNCHANGED <<avlVars, tripVars, bstVars, contVars, scenVars, rotVars, idxVars,
                   listVars, searchVars, graphVars, dsVars>>

\* every vector of up to MaxLen values
Vectors == UNION {[1..n -> Val] : n \in 0..MaxLen}

\* how many times a value occurs in a vector
Occurrences(arr, v) == Cardinality({i \in 1..Len(arr) : arr[i] = v})

\* ------------------------------------------------------------------ Search
SearchIdle ==
    /\ bs_arr = <<>> /\ bs_target = 0
    /\ bs_res = [kind |-> "none", reads |-> {}, index |-> 0]

\* size_t arithmetic is unsigned and wraps: it is taken modulo 2^SizeBits
SizeModulus == 2 ^ SizeBits

size_t(n) == n % SizeModulus

\* static_cast<size_t>(-1), the not-found value
NotFound == size_t(-1)

\* arr[mid] with mid >= arr.size() reads outside the vector's storage
\* (operator[] does not check): the read faults, or yields whatever lies
\* there; what the call does after such a read is not followed
WildRead == {"segv", "wild_read"}

\* the while loop of binary_search, from the bounds left and right on
RECURSIVE binary_search_loop(_, _, _, _, _)
binary_search_loop(arr, target, left, right, reads) ==
    IF left <= right
    THEN LET mid == size_t(left + (right - left) \div 2)
         IN IF mid >= Len(arr)
            THEN {[kind |-> k, reads |-> reads \cup {mid}, index |-> mid] : k \in WildRead}
            ELSE IF At(arr, mid) = target
            THEN {[kind |-> "returned", reads |-> reads \cup {mid}, index |-> mid]}
            ELSE IF At(arr, mid) < target
            THEN binary_search_loop(arr, target, size_t(mid + 1), right, reads \cup {mid})
            ELSE binary_search_loop(arr, target, left, size_t(mid - 1), reads \cup {mid})
    ELSE {[kind |-> "returned", reads |-> reads, index |-> NotFound]}

\* static size_t Search::binary_search(arr, target)
binary_search(arr, target) ==
    binary_search_loop(arr, target, 0, size_t(Len(arr) - 1), {})

\* one call of Search::binary_search on the vector and target handed over
BinarySearchCall ==
    /\ bs_res.kind = "none"
    /\ bs_res' \in binary_search(bs_arr, bs_target)
    /\ UNCHANGED <<bs_arr, bs_target>>
    /\ UNCHANGED <<avlVars, tripVars, bstVars, contVars, scenVars, rotVars, idxVars,
                   listVars, sortVars, graphVars, dsVars>>

\* every sorted vector of up to MaxLen keys
SortedVectors ==
    {v \in UNION {[1..n -> Key] : n \in 0..MaxLen} :
        \A i \in 1..(Len(v) - 1) : v[i] <= v[i + 1]}

\* ------------------------------------------------------------------- Graph
\* Graph(bool directed = false), here before the choice of directed
GraphIdle == adjacency_list = <<>> /\ is_directed_ = FALSE /\ edge_count_ = 0

\* the vertices a client names
Vertex == 1..MaxVal

\* the Edge entries held over all vectors of adjacency_list (an entry is kept
\* as its destination: its source is the key of its vector, and no
\* operation here reads its weight)
RECURSIVE EntriesOf(_, _)
EntriesOf(adj, keys) ==
    IF keys = {} THEN 0
    ELSE LET k == CHOOSE x \in keys : TRUE
         IN Len(adj[k]) + EntriesOf(adj, keys \ {k})

Entries == EntriesOf(adjacency_list, DOMAIN adjacency_list)

\* the client stops adding edges at MaxLen + 1 entries or a count of
\* MaxLen + 1, and makes no further call once edge_count_ has wrapped
GraphCanCall == edge_count_ >= 0

\* void add_vertex(const T& vertex), on the map adj
add_vertex(adj, vertex) ==
    IF vertex \in DOMAIN adj THEN adj ELSE adj @@ (vertex :> <<>>)

\* the vector edges without its entries that lead to vertex
\* (edges.erase(std::remove_if(...), edges.end()))
erase_to(edges, vertex) == SelectSeq(edges, LAMBDA d : d # vertex)

\* void add_edge(const T& source, const T& destination, double weight)
add_edge(source, destination) ==
    LET both    == add_vertex(add_vertex(adjacency_list, source), destination)
        forward == [both EXCEPT ![source] = Append(@, destination)]
    IN /\ adjacency_list' =
            IF ~is_directed_
            THEN [forward EXCEPT ![destination] = Append(@, source)]
            ELSE forward
       /\ edge_count_' = edge_count_ + 1
       /\ UNCHANGED is_directed_

\* void remove_vertex(const T& vertex)
remove_vertex(vertex) ==
    /\ IF vertex \notin DOMAIN adjacency_list
       THEN UNCHANGED adjacency_list
       ELSE adjacency_list' =
                [k \in DOMAIN adjacency_list \ {vertex} |->
                    erase_to(adjacency_list[k], vertex)]
    /\ UNCHANGED <<is_directed_, edge_count_>>

\* void remove_edge(const T& source, const T& destination)
remove_edge(source, destination) ==
    IF source \notin DOMAIN adjacency_list
    THEN UNCHANGED <<adjacency_list, is_directed_, edge_count_>>
    ELSE LET edges   == erase_to(adjacency_list[source], destination)
             first   == [adjacency_list EXCEPT ![source] = edges]
             count1  == IF Len(edges) < Len(adjacency_list[source])
                        THEN edge_count_ - 1 ELSE edge_count_
             reverse == ~is_directed_ /\ destination \in DOMAIN first
             dest_edges == erase_to(first[destination], source)
         IN /\ adjacency_list' =
                 IF reverse THEN [first EXCEPT ![destination] = dest_edges]
                 ELSE first
            /\ edge_count_' =
                 IF reverse /\ Len(dest_edges) < Len(first[destination])
                 THEN count1 - 1 ELSE count1
            /\ UNCHANGED is_directed_

graphFrame == <<avlVars, tripVars, bstVars, contVars, scenVars, rotVars, idxVars,
                listVars, sortVars, searchVars, dsVars>>

GraphAddVertex ==
    /\ GraphCanCall
    /\ \E v \in Vertex : adjacency_list' = add_vertex(adjacency_list, v)
    /\ UNCHANGED <<is_directed_, edge_count_>>
    /\ UNCHANGED graphFrame

GraphAddEdge ==
    /\ GraphCanCall
    /\ Entries + (IF is_directed_ THEN 1 ELSE 2) <= MaxLen + 1
    /\ edge_count_ <= MaxLen
    /\ \E s \in Vertex, d \in Vertex : add_edge(s, d)
    /\ UNCHANGED graphFrame

GraphRemoveVertex ==
    /\ GraphCanCall
    /\ \E v \in Vertex : remove_vertex(v)
    /\ UNCHANGED graphFrame

GraphRemoveEdge ==
    /\ GraphCanCall
    /\ \E s \in Vertex, d \in Vertex : remove_edge(s, d)
    /\ UNCHANGED graphFrame

\* the edges currently stored: an undirected edge is held as two entries
StoredEdges == IF is_directed_ THEN Entries ELSE Entries \div 2

\* ------------------------------------------------------------- DisjointSet
\* DisjointSet()
\* the elements a client names
Element == 1..MaxLen

\* an equivalence relation on Element, kept as the least element of each
\* element's class: Apart is the identity, Merge(rel, x, y) the closure of
\* rel with the pair x, y added
Apart == [e \in Element |-> e]

Merge(rel, x, y) ==
    LET least == IF rel[x] < rel[y] THEN rel[x] ELSE rel[y]
    IN [e \in Element |-> IF rel[e] \in {rel[x], rel[y]} THEN least ELSE rel[e]]

DSInit ==
    /\ nodes = <<>> /\ set_count_ = 0
    /\ union_calls = [made |-> Apart, returned |-> Apart]
    /\ ds_res = [call |-> "new", x |-> 0, y |-> 0, kind |-> "done", val |-> FALSE]

\* DisjointSetNode<T>* find_set_recursive(DisjointSetNode<T>* node): the
\* nodes after the call and the root it returns (a node is named by its data)
RECURSIVE find_set_recursive(_, _)
find_set_recursive(ns, node) ==
    IF ns[node].parent # node
    THEN LET up == find_set_recursive(ns, ns[node].parent)
         IN [nodes |-> [up.nodes EXCEPT ![node].parent = up.root], root |-> up.root]
    ELSE [nodes |-> ns, root |-> ns[node].parent]

\* T find_set(const T& value)
find_set(ns, value) ==
    IF value \notin DOMAIN ns
    THEN [kind |-> "out_of_range", nodes |-> ns, root |-> value]
    ELSE LET found == find_set_recursive(ns, value)
         IN [kind  |-> "value",
             nodes |-> IF found.root # value
                       THEN [found.nodes EXCEPT ![value].parent = found.root]
                       ELSE found.nodes,
             root  |-> found.root]

\* the outcome of a call: kind is "done" (returned nothing), "value"
\* (returned val) or "out_of_range" (threw)
DSOutcome(call, x, y, kind, val) ==
    ds_res' = [call |-> call, x |-> x, y |-> y, kind |-> kind, val |-> val]

\* void make_set(const T& value)
make_set(value) ==
    /\ IF value \in DOMAIN nodes
       THEN UNCHANGED <<nodes, set_count_>>
       ELSE /\ nodes' = nodes @@ (value :> [parent |-> value, rank |-> 0, size |-> 1])
            /\ set_count_' = set_count_ + 1
    /\ DSOutcome("make_set", value, value, "done", FALSE)
    /\ UNCHANGED union_calls

\* the nodes after the union-by-rank step of union_sets on two roots
link(ns, root_x, root_y) ==
    IF ns[root_x].rank < ns[root_y].rank
    THEN [ns EXCEPT ![root_x].parent = root_y,
                    ![root_y].size = @ + ns[root_x].size]
    ELSE IF ns[root_x].rank > ns[root_y].rank
    THEN [ns EXCEPT ![root_y].parent = root_x,
                    ![root_x].size = @ + ns[root_y].size]
    ELSE [ns EXCEPT ![root_y].parent = root_x,
                    ![root_x].rank = @ + 1,
                    ![root_x].size = @ + ns[root_y].size]

\* union_sets without its link when x's root has the lower rank
union_sets_skip_lower(x, y) ==
    LET fx == find_set(nodes, x)
        fy == find_set(fx.nodes, y)
        made == Merge(union_calls.made, x, y)
    IN IF fx.kind = "out_of_range"
       THEN /\ DSOutcome("union_sets", x, y, "out_of_range", FALSE)
            /\ union_calls' = [union_calls EXCEPT !.made = made]
            /\ UNCHANGED <<nodes, set_count_>>
       ELSE IF fy.kind = "out_of_range"
       THEN /\ DSOutcome("union_sets", x, y, "out_of_range", FALSE)
            /\ union_calls' = [union_calls EXCEPT !.made = made]
            /\ nodes' = fx.nodes
            /\ UNCHANGED set_count_
       ELSE /\ DSOutcome("union_sets", x, y, "done", FALSE)
            /\ union_calls' = [made |-> made,
                               returned |-> Merge(union_calls.returned, x, y)]
            /\ IF fx.root = fy.root
               THEN nodes' = fy.nodes /\ UNCHANGED set_count_
               ELSE /\ nodes' = IF fy.nodes[fx.root].rank < fy.nodes[fy.root].rank
                                THEN fy.nodes
                                ELSE link(fy.nodes, fx.root, fy.root)
                    /\ set_count_' = set_count_ - 1

\* void union_sets(const T& x, const T& y); union_calls takes the call in
\* when it is made and again when it returns
union_sets(x, y) ==
    LET fx == find_set(nodes, x)
        fy == find_set(fx.nodes, y)
        made == Merge(union_calls.made, x, y)
    IN IF fx.kind = "out_of_range"
       THEN /\ DSOutcome("union_sets", x, y, "out_of_range", FALSE)
            /\ union_calls' = [union_calls EXCEPT !.made = made]
            /\ UNCHANGED <<nodes, set_count_>>
       ELSE IF fy.kind = "out_of_range"
       THEN /\ DSOutcome("union_sets", x, y, "out_of_range", FALSE)
            /\ union_calls' = [union_calls EXCEPT !.made = made]
            /\ nodes' = fx.nodes
            /\ UNCHANGED set_count_
       ELSE /\ DSOutcome("union_sets", x, y, "done", FALSE)
            /\ union_calls' = [made |-> made,
                               returned |-> Merge(union_calls.returned, x, y)]
            /\ IF fx.root = fy.root
               THEN nodes' = fy.nodes /\ UNCHANGED set_count_
               ELSE /\ nodes' = link(fy.nodes, fx.root, fy.root)
                    /\ set_count_' = set_count_ - 1

\* bool is_same_set(const T& x, const T& y): find_set(x) == find_set(y)
\* evaluates its operands in either order; first is the one evaluated first
is_same_set(x, y, first) ==
    LET second == IF first = x THEN y ELSE x
        f1 == find_set(nodes, first)
        f2 == find_set(f1.nodes, second)
    IN /\ IF f1.kind = "out_of_range"
          THEN /\ DSOutcome("is_same_set", x, y, "value", FALSE)
               /\ UNCHANGED nodes
          ELSE IF f2.kind = "out_of_range"
          THEN /\ DSOutcome("is_same_set", x, y, "value", FALSE)
               /\ nodes' = f1.nodes
          ELSE /\ DSOutcome("is_same_set", x, y, "value", f1.root = f2.root)
               /\ nodes' = f2.nodes
       /\ UNCHANGED <<set_count_, union_calls>>

dsFrame == <<avlVars, tripVars, bstVars, contVars, scenVars, rotVars, idxVars,
             listVars, sortVars, searchVars, graphVars>>

DSMakeSet == \E v \in Element : make_set(v) /\ UNCHANGED dsFrame

DSUnionSets == \E x \in Element, y \in Element : union_sets(x, y) /\ UNCHANGED dsFrame

DSIsSameSet ==
    \E x \in Element, y \in Element :
        \E first \in {x, y} : is_same_set(x, y, first) /\ UNCHANGED dsFrame

\* ---------------------------------------------- the later objects, untouched
LateIdle == ListInit /\ SortIdle /\ SearchIdle /\ GraphIdle /\ DSInit

\* --------------------------------------------------------- specifications
\* an AVLTree under any sequence of insert and remove
Init ==
    /\ AVLInit /\ ub \in UBOutcome /\ TripIdle /\ BSTInit
    /\ ContInit /\ under_test = "none"
    /\ ScenIdle /\ RotIdle /\ IdxInit /\ LateIdle

Next == Insert \/ Remove

Spec == Init /\ [][Next]_vars

\* an AVLTree on which a set of keys is inserted and then removed
TripNext == TripInsert \/ TripRemove

SpecRoundTrip == Init /\ [][TripNext]_vars

\* a BinarySearchTree under insert, remove, min and max
BSTSpecInit ==
    /\ AVLInit /\ ub = "trap" /\ TripIdle /\ BSTInit
    /\ ContInit /\ under_test = "none"
    /\ ScenIdle /\ RotIdle /\ IdxInit /\ LateIdle

BSTNext == BSTInsert \/ BSTRemove \/ BSTMin \/ BSTMax

SpecBST == BSTSpecInit /\ [][BSTNext]_vars

\* a Stack, a Queue and a Heap under push, pop and top / front
ContSpecInit ==
    /\ AVLInit /\ ub = "trap" /\ TripIdle /\ BSTInit
    /\ ContInit /\ under_test \in Container
    /\ ScenIdle /\ RotIdle /\ IdxInit /\ LateIdle

ContNext ==
    \/ StackTop \/ StackPush \/ StackPop
    \/ QueueFront \/ QueuePush \/ QueuePop
    \/ HeapTop \/ HeapPush \/ HeapPop

SpecContainers == ContSpecInit /\ [][ContNext]_vars

\* an ArrayDS, a CircularQueue and a CircularLinkedList under their
\* modifiers and at()
IdxSpecInit ==
    /\ AVLInit /\ ub = "trap" /\ TripIdle /\ BSTInit
    /\ ContInit /\ under_test \in Indexed
    /\ ScenIdle /\ RotIdle /\ IdxInit /\ LateIdle

IdxNext ==
    \/ ArrAt \/ ArrPushBack \/ ArrPopBack \/ ArrInsert \/ ArrErase
    \/ CQAt \/ CQPush \/ CQPop \/ CQFront \/ CQRotate \/ CQRotateReverse
    \/ CLLAt \/ CLLPushBack \/ CLLPopFront

SpecIndexed == IdxSpecInit /\ [][IdxNext]_vars

\* an AVLTree under the calls of a client that runs one scenario
ScenNext == ScenInsert \/ ScenRemove

SpecScenarios == Init /\ [][ScenNext]_vars

\* one rotation of one subtree, in each build
RotSpecInit ==
    /\ AVLInit /\ ub \in UBOutcome /\ TripIdle /\ BSTInit
    /\ ContInit /\ under_test = "none"
    /\ ScenIdle /\ IdxInit /\ LateIdle
    /\ rot_in \in Trees(1, MaxKey) /\ rot_out = NoRotation

RotNext == RotateRight \/ RotateLeft

SpecRotate == RotSpecInit /\ [][RotNext]_vars

\* a LinkedList under push_front, push_back, pop_front and pop_back
ListSpecInit ==
    /\ AVLInit /\ ub = "trap" /\ TripIdle /\ BSTInit
    /\ ContInit /\ under_test = "none"
    /\ ScenIdle /\ RotIdle /\ IdxInit /\ LateIdle

ListNext == LLPushFront \/ LLPushBack \/ LLPopFront \/ LLPopBack

SpecList == ListSpecInit /\ [][ListNext]_vars

\* one call of QuickSort::sort, on every vector and strategy
SortSpecInit ==
    /\ AVLInit /\ ub = "trap" /\ TripIdle /\ BSTInit
    /\ ContInit /\ under_test = "none"
    /\ ScenIdle /\ RotIdle /\ IdxInit
    /\ ListInit /\ SearchIdle /\ GraphIdle /\ DSInit
    /\ qs_arr \in Vectors /\ qs_strategy \in PivotStrategy
    /\ qs_res = [kind |-> "none", arr |-> <<>>]

SortNext == QuickSortCall

SpecSort == SortSpecInit /\ [][SortNext]_vars

\* one call of Search::binary_search, on every sorted vector and target
SearchSpecInit ==
    /\ AVLInit /\ ub = "trap" /\ TripIdle /\ BSTInit
    /\ ContInit /\ under_test = "none"
    /\ ScenIdle /\ RotIdle /\ IdxInit
    /\ ListInit /\ SortIdle /\ GraphIdle /\ DSInit
    /\ bs_arr \in SortedVectors /\ bs_target \in Key
    /\ bs_res = [kind |-> "none", reads |-> {}, index |-> 0]

SearchNext == BinarySearchCall

SpecSearch == SearchSpecInit /\ [][SearchNext]_vars

\* a Graph, directed or not, under its modifiers
GraphSpecInit ==
    /\ AVLInit /\ ub = "trap" /\ TripIdle /\ BSTInit
    /\ ContInit /\ under_test = "none"
    /\ ScenIdle /\ RotIdle /\ IdxInit
    /\ ListInit /\ SortIdle /\ SearchIdle /\ DSInit
    /\ adjacency_list = <<>> /\ is_directed_ \in BOOLEAN /\ edge_count_ = 0

GraphNext == GraphAddVertex \/ GraphAddEdge \/ GraphRemoveVertex \/ GraphRemoveEdge

SpecGraph == GraphSpecInit /\ [][GraphNext]_vars

\* a DisjointSet under make_set, union_sets and is_same_set
DSSpecInit ==
    /\ AVLInit /\ ub = "trap" /\ TripIdle /\ BSTInit
    /\ ContInit /\ under_test = "none"
    /\ ScenIdle /\ RotIdle /\ IdxInit
    /\ ListInit /\ SortIdle /\ SearchIdle /\ GraphIdle /\ DSInit

DSNext == DSMakeSet \/ DSUnionSets \/ DSIsSameSet

SpecDisjointSet == DSSpecInit /\ [][DSNext]_vars

\* ----------------------------------------------------------- observations
\* every node of a tree, as the subtree it roots
RECURSIVE Subtrees(_)
Subtrees(node) ==
    IF IsNil(node) THEN {}
    ELSE {node} \cup Subtrees(node.left) \cup Subtrees(node.right)

\* the keys stored in a tree
StoredKeys(node) == {n.data : n \in Subtrees(node)}

\* balance factor from the shape: height of left subtree - height of right
BalanceFactor(node) == height_recursive(node.left) - height_recursive(node.right)

StrictlyAscending(s) == \A i \in 1..(Len(s) - 1) : s[i] < s[i + 1]

\* ----------------------------------------------------------------- claims
\* C1: for every sequence of insert and remove on an AVLTree that starts
\* empty, after each completed operation every node's balance factor
\* (height of its left subtree minus height of its right subtree) is in
\* {-1, 0, 1}.
C1_BalanceInvariant ==
    ~crashed => \A n \in Subtrees(root) : BalanceFactor(n) \in {-1, 0, 1}

\* C2: for every AVLTree reachable by insert and remove, inorder() returns
\* the stored keys in strictly ascending order, so no key is stored twice.
C2_InorderAscending ==
    ~crashed => /\ StrictlyAscending(inorder)
                /\ Len(inorder) = Cardinality(StoredKeys(root))

\* C2 witness: a tree of three or more keys, just shrunk by a remove, that
\* has been through a rotation (its cached root height is stale).
C2_Witness ==
    /\ ~crashed
    /\ last.op = "remove" /\ last.present
    /\ Len(inorder) >= 3
    /\ get_height(root) # height_recursive(root)

\* C3: size() equals the number of keys currently stored; inserting a key
\* that is already present does not change size().
C3_SizeIsKeyCount ==
    ~crashed => size_ = Cardinality(StoredKeys(root))

\* C4: insert(k) on a tree that does not contain k completes, afterwards
\* contains(k) is true and the stored keys are the previous ones plus k.
C4_InsertAbsentAdds ==
    [][(last'.op = "insert" /\ ~Contains(root, last'.key))
         => /\ ~crashed'
            /\ Contains(root', last'.key)
            /\ StoredKeys(root') = StoredKeys(root) \cup {last'.key}]_vars

\* C5: remove(k) on a tree that contains k removes exactly that key:
\* afterwards contains(k) is false and every other key is still stored.
C5_RemovePresentRemoves ==
    [][(last'.op = "remove" /\ Contains(root, last'.key))
         => /\ ~crashed'
            /\ ~Contains(root', last'.key)
            /\ StoredKeys(root') = StoredKeys(root) \ {last'.key}]_vars

\* C6: remove(k) on a tree that does not contain k is a no-op: shape,
\* stored keys, cached heights and size() are unchanged.
C6_RemoveAbsentNoOp ==
    [][(last'.op = "remove" /\ ~Contains(root, last'.key))
         => /\ root' = root
            /\ size_' = size_
            /\ crashed' = crashed]_vars

\* C6 witness: a remove of an absent key has acted on a non-empty tree.
C6_Witness ==
    /\ last.op = "remove" /\ ~last.present
    /\ ~IsNil(root)
    /\ ~crashed

\* C7: inserting a key that is already stored leaves the tree identical,
\* by inorder() sequence and by size(), to the tree before that insert.
C7_InsertTwiceIdempotent ==
    [][(last'.op = "insert" /\ Contains(root, last'.key))
         => /\ inorder_recursive(root') = inorder_recursive(root)
            /\ size_' = size_]_vars

\* C8: inserting the keys of a set into an empty AVLTree and then removing
\* all of them, in any order, leaves an empty tree (no nodes, size() = 0)
\* for which is_balanced() is true; every call of the round trip returns.
C8_RoundTripEmpty ==
    /\ ~crashed
    /\ (tripIn # {} /\ tripOut = tripIn)
          => (IsNil(root) /\ size_ = 0 /\ is_balanced)

\* C9: whenever the BinarySearchTree has no nodes, min() and max() fail
\* with the empty-structure condition (std::out_of_range).
C9_MinMaxOnEmptyThrow ==
    (bst_res.call \in {"min", "max"} /\ IsNil(bst_root))
        => bst_res.kind = "out_of_range"

\* C10: top() / front() on an empty Stack, Queue or Heap, in any state
\* reached by pushes and pops, signals the empty failure
\* (std::out_of_range) and returns no value.
C10_TopOnEmptyThrows ==
    /\ (cont_res.call = "Stack::top" /\ stack_data = <<>>)
          => cont_res.kind = "out_of_range"
    /\ (cont_res.call = "Queue::front" /\ queue_data = <<>>)
          => cont_res.kind = "out_of_range"
    /\ (cont_res.call = "Heap::top" /\ heap_data = <<>>)
          => cont_res.kind = "out_of_range"

\* C10 witness: top() on a Heap that a pop has just emptied.
C10_Witness ==
    /\ cont_res.call = "Heap::top" /\ cont_res.prev = "Heap::pop"
    /\ heap_data = <<>>
    /\ cont_res.kind = "out_of_range"

\* C11 as stated: at(i) with i >= size() signals out of bounds, and returns
\* no element, on ArrayDS, CircularQueue and CircularLinkedList alike.
C11_AtPastEndThrows ==
    /\ (at_res.call = "ArrayDS::at" /\ at_res.index >= arr_size)
            => at_res.kind = "out_of_range"
    /\ (at_res.call = "CircularQueue::at" /\ at_res.index >= count_)
            => at_res.kind = "out_of_range"
    /\ (at_res.call = "CircularLinkedList::at" /\ at_res.index >= cll_size)
            => at_res.kind = "out_of_range"

\* C11, amended: ArrayDS::at(i) and CircularQueue::at(i) signal out of
\* bounds, and return no element, for every i >= size().
\* CircularLinkedList::at(i) signals out of bounds exactly when the list is
\* empty: on a list that holds elements it takes i modulo size() and never
\* signals out of bounds, whatever i is.
C11_AtPastEndThrowsOrWraps ==
    /\ (at_res.call = "ArrayDS::at" /\ at_res.index >= arr_size)
            => at_res.kind = "out_of_range"
    /\ (at_res.call = "CircularQueue::at" /\ at_res.index >= count_)
            => at_res.kind = "out_of_range"
    /\ at_res.call = "CircularLinkedList::at"
            => (at_res.kind = "out_of_range" <=> cll_size = 0)
    /\ (at_res.call = "CircularLinkedList::at" /\ at_res.kind = "value")
            => at_res.val = At(cll_data, at_res.index % cll_size)

\* C11 witness: at(i) past the end of a CircularLinkedList that holds an
\* element has returned that element.
C11_Witness ==
    /\ at_res.call = "CircularLinkedList::at"
    /\ cll_size > 0
    /\ at_res.index >= cll_size
    /\ at_res.kind = "value"

\* C12: is_balanced() returns true exactly when, for every node, the
\* heights of its left and right subtrees, counted afresh from the shape of
\* the tree, differ by at most 1; the cached height fields play no part.
C12_IsBalancedRecomputes ==
    ~crashed =>
        (is_balanced <=> \A n \in Subtrees(root) : BalanceFactor(n) \in {-1, 0, 1})

\* C12 witness: is_balanced() is true of a tree one of whose nodes has
\* cached child heights two or more apart.
C12_Witness ==
    /\ ~crashed
    /\ is_balanced
    /\ \E n \in Subtrees(root) : Abs(get_balance(n)) > 1

\* C13: starting from an empty AVLTree, inserting 10, 20, 30 in that order
\* (every call returning) yields a tree whose root is 20 with left child 10
\* and right child 30, and nothing else, and height() = 2.
C13_InsertRightRight ==
    /\ IsPrefix(ran, Inserts(<<10, 20, 30>>)) => ~crashed
    /\ ran = Inserts(<<10, 20, 30>>) =>
            /\ ~IsNil(root) /\ root.data = 20
            /\ ~IsNil(root.left) /\ root.left.data = 10
            /\ ~IsNil(root.right) /\ root.right.data = 30
            /\ Cardinality(Subtrees(root)) = 3
            /\ height = 2

\* C14: starting from an empty AVLTree, inserting 1, 2, ..., 7 in ascending
\* order (every call returning) yields a perfectly balanced tree (seven
\* nodes on three full levels) with root 4 and height() = 3.
C14_InsertAscending ==
    /\ IsPrefix(ran, Inserts(Ascending)) => ~crashed
    /\ ran = Inserts(Ascending) =>
            /\ ~IsNil(root) /\ root.data = 4
            /\ height = 3
            /\ Cardinality(Subtrees(root)) = 7

\* C15: the 7-node tree built by inserting 1..7 in ascending order gets
\* built, and removing its root key from it returns and leaves a tree for
\* which is_balanced() is true and whose inorder() yields the six remaining
\* keys in ascending order.
C15_RemoveRootOfSeven ==
    [][ /\ (\E k \in 1..7 :
                IsPrefix(ran', Inserts(Ascending) \o <<Call("remove", k)>>))
            => ~crashed'
        /\ (ran = Inserts(Ascending) /\ ran' = Append(ran, Call("remove", root.data)))
            => /\ is_balanced_recursive(root') # -1
               /\ StrictlyAscending(inorder_recursive(root'))
               /\ {inorder_recursive(root')[i] :
                       i \in 1..Len(inorder_recursive(root'))}
                    = (1..7) \ {root.data}
               /\ Len(inorder_recursive(root')) = 6
      ]_vars

\* C16: after every completed insert or remove, every node's cached height
\* field equals 1 + max(height(left), height(right)), where an absent child
\* contributes 0.
C16_CachedHeights ==
    ~crashed =>
        \A n \in Subtrees(root) :
            n.height = 1 + Max(get_height(n.left), get_height(n.right))

\* C17: right_rotate and left_rotate never read or write a node through a
\* handle whose ownership has been transferred away: each of the two height
\* updates inside a rotation goes through a handle that still refers to a
\* node.
C17_NoMovedFromUse ==
    rot_out.call # "none" => ~IsNil(rot_out.first) /\ ~IsNil(rot_out.second)

\* C18: right_rotate(y), for a subtree root y with left child x, returns x
\* as the new subtree root with y as x's right child and x's former right
\* subtree as y's left subtree, the height of y and then of x recomputed
\* from their new children.
C18_RightRotateResult ==
    rot_out.call = "right_rotate" =>
        LET y == rot_in
            x == rot_in.left
            r == rot_out.result
        IN /\ ~IsDead(r)
           /\ r.data = x.data /\ r.left = x.left
           /\ ~IsNil(r.right)
           /\ r.right.data = y.data
           /\ r.right.left = x.right /\ r.right.right = y.right
           /\ r.right.height = 1 + Max(get_height(x.right), get_height(y.right))
           /\ r.height = 1 + Max(get_height(x.left), r.right.height)

\* C19: a rotation, left or right, returns a subtree whose in-order key
\* sequence is that of the subtree it was handed: the order of the keys is
\* kept and no key is added or lost.
C19_RotationKeepsInorder ==
    rot_out.call # "none" =>
        /\ ~IsDead(rot_out.result)
        /\ inorder_recursive(rot_out.result) = inorder_recursive(rot_in)

\* C20: a single insert into a balanced tree performs at most one
\* rebalancing action in total along the insertion path (one single or one
\* double rotation), returns, and leaves the whole tree balanced.
C20_OneRebalancePerInsert ==
    [][ (/\ last'.op = "insert"
         /\ \A n \in Subtrees(root) : BalanceFactor(n) \in {-1, 0, 1})
        => /\ insert_cases(root, last'.key) <= 1
           /\ ~crashed'
           /\ \A n \in Subtrees(root') : BalanceFactor(n) \in {-1, 0, 1}
      ]_vars

\* C21: during a remove of a stored key from a balanced tree, the
\* rebalancing step at each ancestor on the unwind returns, and leaves every
\* node of the subtree rooted at that ancestor with balance factor in
\* {-1, 0, 1}.
C21_RemoveRebalancesEachAncestor ==
    [][ (/\ last'.op = "remove" /\ last'.present
         /\ \A n \in Subtrees(root) : BalanceFactor(n) \in {-1, 0, 1})
        => \A call \in remove_unwind(root, last'.key) :
              LET sub == remove_recursive(call[1], call[2])
              IN /\ ~IsDead(sub)
                 /\ \A n \in Subtrees(sub) : BalanceFactor(n) \in {-1, 0, 1}
      ]_vars

\* C22: whenever insert or remove invokes right_rotate on a node, that node
\* has a left child, and whenever it invokes left_rotate on a node, that
\* node has a right child; the inner rotation of the Left-Right and
\* Right-Left cases included.
C22_RotatedChildExists ==
    [][ \A c \in (IF last'.op = "insert" THEN insert_rotations(root, last'.key)
                  ELSE IF last'.present THEN remove_rotations(root, last'.key)
                  ELSE {}) :
            IF c[1] = "right_rotate" THEN ~IsNil(c[2].left)
            ELSE ~IsNil(c[2].right)
      ]_vars

\* C23: after any sequence of push and pop on a Heap, the stored array
\* satisfies the heap property for the comparator: is_heap() returns true
\* and top() is an element that no other stored element exceeds under the
\* comparator.
C23_HeapProperty ==
    under_test = "Heap" =>
        /\ is_heap
        /\ \A i \in 0..(Len(heap_data) - 1) :
                ~comp(At(heap_data, 0), At(heap_data, i))

\* C24: after any sequence of push_front, push_back, pop_front and pop_back
\* on a LinkedList the links are consistent: head has no predecessor, tail
\* is the last node reachable from head through next, and for every node n
\* with a next node m, m's prev refers to n; so pop_back never follows an
\* absent prev link.
C24_LinksConsistent ==
    LET chain == ChainFrom(ll_head, {})
    IN /\ ll_res.kind \notin NullUse
       /\ ll_head # 0 => ll_nodes[ll_head].prev = 0
       /\ ll_tail = (IF chain = <<>> THEN 0 ELSE chain[Len(chain)])
       /\ \A i \in 1..(Len(chain) - 1) : ll_nodes[chain[i + 1]].prev = chain[i]

\* C25: QuickSort::sort(arr, strategy) leaves arr sorted in non-decreasing
\* order and a permutation of its input, for every input vector and every
\* PivotStrategy.
C25_QuickSortSorts ==
    qs_res.kind = "returned" =>
        /\ \A i \in 1..(Len(qs_res.arr) - 1) : qs_res.arr[i] <= qs_res.arr[i + 1]
        /\ Len(qs_res.arr) = Len(qs_arr)
        /\ \A v \in Val : Occurrences(qs_res.arr, v) = Occurrences(qs_arr, v)

\* C26: Search::binary_search on any sorted vector, the empty vector and a
\* target smaller than every element included, reads only indices in
\* [0, size) and returns an index that holds the target when the target is
\* present and size_t(-1) otherwise.
C26_BinarySearchInBounds ==
    bs_res.kind # "none" =>
        /\ bs_res.kind = "returned"
        /\ bs_res.reads \subseteq 0..(Len(bs_arr) - 1)
        /\ IF \E i \in 1..Len(bs_arr) : bs_arr[i] = bs_target
           THEN bs_res.index < Len(bs_arr) /\ At(bs_arr, bs_res.index) = bs_target
           ELSE bs_res.index = NotFound

\* C27: on a CircularQueue of fixed capacity, a push on a queue that is not
\* full puts its value behind all elements held, a pop on a queue that is
\* not empty takes away the element pushed first, and front() returns that
\* element: elements leave in the order they were pushed, also when the
\* buffer indices have wrapped around.
C27_FIFO ==
    [][/\ \A v \in Val : (cq_push(v) /\ count_ # Len(buffer))
                            => Contents' = Append(Contents, v)
       /\ (cq_pop /\ count_ # 0) => Contents' = Tail(Contents)
       /\ (cq_front /\ count_ # 0)
            => at_res'.val = Head(Contents) /\ Contents' = Contents]_vars

\* front() has answered on a queue whose elements wrap around the end of the
\* buffer
C27_Witness ==
    /\ under_test = "CircularQueue"
    /\ at_res.call = "CircularQueue::front" /\ at_res.kind = "value"
    /\ count_ >= 2 /\ front_index + count_ > Len(buffer)
    /\ Contents[1] # Contents[2]

\* C28: on a non-empty CircularQueue, rotate_reverse(k) called right after
\* rotate(k) leaves the front-to-back sequence the queue held before
\* rotate(k), for every k.
C28_RotateThenReverse ==
    [][\A k \in Index :
          (/\ count_ # 0
           /\ at_res.call = "CircularQueue::rotate" /\ at_res.index = k
           /\ cq_rotate_reverse(k))
          => Contents' = at_res.before]_vars

\* C29: after any sequence of add_edge, remove_edge and remove_vertex on a
\* Graph, directed or undirected, edge_count() equals the number of edges
\* currently stored, an undirected edge counting once, and has not wrapped
\* below zero.
C29_EdgeCountExact == edge_count_ >= 0 /\ edge_count_ = StoredEdges

\* C30 as stated: after any sequence of make_set and union_sets,
\* is_same_set(x, y) is true exactly when x and y are both registered and are
\* related by the reflexive, symmetric, transitive closure of the union_sets
\* calls made so far.
C30_SameSetIffCalled ==
    ds_res.call = "is_same_set" =>
        (ds_res.val <=> /\ ds_res.x \in DOMAIN nodes
                        /\ ds_res.y \in DOMAIN nodes
                        /\ union_calls.made[ds_res.x] = union_calls.made[ds_res.y])

\* C30, amended: is_same_set(x, y) is true exactly when x and y are both
\* registered and are related by the reflexive, symmetric, transitive closure
\* of the union_sets calls that returned; a union_sets call that names an
\* unregistered element throws and unites nothing.
C30_SameSetIffUnited ==
    ds_res.call = "is_same_set" =>
        (ds_res.val <=> /\ ds_res.x \in DOMAIN nodes
                        /\ ds_res.y \in DOMAIN nodes
                        /\ union_calls.returned[ds_res.x] = union_calls.returned[ds_res.y])

\* is_same_set has answered true on two different elements, after some
\* union_sets call had thrown on a pair that no returned call relates
C30_Witness ==
    /\ ds_res.call = "is_same_set" /\ ds_res.val
    /\ ds_res.x # ds_res.y
    /\ union_calls.made # union_calls.returned

====
